---- MODULE Spec2Model ----
(***************************************************************************)
(* Orchestration core of aigroup-paper-mcp: the platform health monitor    *)
(* with its retry wrapper, the token-bucket rate limiter, the four         *)
(* execution strategies of the parallel search manager and the result      *)
(* merger / deduplicator.                                                  *)
(*                                                                         *)
(* The JavaScript runtime is single threaded: every action below is one    *)
(* run-to-completion step, from the resumption of an awaited promise to    *)
(* the next await.                                                         *)
(***************************************************************************)
EXTENDS Integers, Sequences, FiniteSets, TLC

VARIABLES
    now,               \* Date.now(), in milliseconds
    metrics,           \* PlatformHealthMonitor.metrics : source -> record
    healthCheckCache,  \* PlatformHealthMonitor.healthCheckCache
    retry,             \* one executeWithRetry activation per caller
    probe,             \* one checkHealth activation per caller
    opCalls,           \* per caller: how often executeWithRetry invoked operation()
    drivers,           \* executeParallelSearch: the drivers argument (their sources)
    config,            \* executeParallelSearch: finalConfig
    tasks,             \* the SearchTask list of the run
    spc,               \* where the strategy function of the run is suspended
    results,           \* the strategy's results array
    executing,         \* executeSmartParallel: the executing array (task indices)
    taskIndex,         \* next task to start (smart, sequential), batch offset (batch)
    settled,           \* per task: the wrapper its executeSearchTask promise resolved to
    wake,              \* executeSmartParallel: the task whose promise won Promise.race
    concurrency,       \* executeSmartParallel: the maxConcurrency argument
    options,           \* RateLimiter.options
    tokens,            \* RateLimiter.tokens, in thousandths of a token
    lastRefill,        \* RateLimiter.lastRefill
    acq,               \* one acquire() activation per caller
    microtasks,        \* the acquire() activations to resume, in order, before any timer
    mergeInput,        \* mergeAndDeduplicateResults: the results argument
    merged,            \* mergeAndDeduplicateResults: what it returned
    response,          \* what the search entry point returned or threw
    abandoned,         \* per task: the provider calls a timeout left running
    timer,             \* the timer of withTimeout in the task invocation followed step by step
    responseScore,     \* calculateResponseScore: its arguments and what it returned
    selection          \* selectPlatforms: its arguments and what it returned

healthVars == <<now, metrics, healthCheckCache, retry, probe, opCalls>>

execVars == <<drivers, config, tasks, spc, results, executing, taskIndex, settled, wake, concurrency>>

rateVars == <<options, tokens, lastRefill, acq, microtasks>>

dedupVars == <<mergeInput, merged>>

callerVars == <<response, abandoned, timer>>

strategyVars == <<responseScore, selection>>

otherVars == <<rateVars, dedupVars, callerVars, strategyVars>>

(***************************************************************************)
(* Bounds of the model.                                                    *)
(***************************************************************************)
NumProviders == 3
NumSmartTasks == 4
NumHealthSources == 2
MaxCallers == 1
MaxProbers == 1
MaxRequests == 4
MaxTime == 60000
MaxConcurrency == 3
MaxAcquirers == 3
MaxRateTime == 3000
MaxPapers == 3
MaxHistory == 2
NumRegistered == 2
MaxBatchSize == 2

Providers == 1..NumProviders
Callers == 1..MaxCallers
Probers == 1..MaxProbers
TickSteps == {30000}
Acquirers == 1..MaxAcquirers
RateTickSteps == {500, 1000}
LatencySet == {100, 6000}

(***************************************************************************)
(* Errors an operation can reject with.  isRetryableError looks for one of *)
(* the strategy's retryableErrors in the message or the code.              *)
(***************************************************************************)
RetryableErrors == {"ECONNRESET", "ETIMEDOUT", "ENOTFOUND", "ECONNREFUSED", "429", "503", "504"}
ErrorSet == {"ETIMEDOUT", "401"}

\* the message of the error withTimeout rejects with, for the default timeout
\* of 30000 ms; it holds none of the retryable strings
TimeoutError == "timeout 30000ms"

RECURSIVE Digits(_)
\* the decimal digits of n, as `${n}` writes them
Digits(n) == IF n < 10 THEN <<n>> ELSE Append(Digits(n \div 10), n % 10)

\* String.prototype.includes on sequences of characters
Includes(str, sub) == \E i \in 0..(Len(str) - Len(sub)) : SubSeq(str, i + 1, i + Len(sub)) = sub

\* the retryable strings made of digits, which alone can occur in the message
\* of withTimeout: its other characters are none of those of the other strings
NumericRetryable == { [code |-> "429", digits |-> <<4, 2, 9>>],
                      [code |-> "503", digits |-> <<5, 0, 3>>],
                      [code |-> "504", digits |-> <<5, 0, 4>>] }

\* the error withTimeout(promise, timeoutMs) rejects with: an error stands
\* for the retryable string its message holds, if it holds one
withTimeoutError(timeoutMs) ==
    LET held == {c \in NumericRetryable : Includes(Digits(timeoutMs), c.digits)}
    IN IF held = {} THEN TimeoutError ELSE (CHOOSE c \in held : TRUE).code

\* what a search attempt is rejected with: a retryable driver error or the timeout
SearchErrorSet == {"ETIMEDOUT", TimeoutError}

(***************************************************************************)
(* Exact fractions stand for the JavaScript doubles: successRate and       *)
(* averageLatency are quotients of small integers.                         *)
(***************************************************************************)
RECURSIVE GCD(_, _)
GCD(a, b) == IF b = 0 THEN a ELSE GCD(b, a % b)

Frac(n, d) == IF n = 0 THEN [n |-> 0, d |-> 1] ELSE [n |-> n \div GCD(n, d), d |-> d \div GCD(n, d)]

FracLess(x, y) == x.n * y.d < y.n * x.d

Min(a, b) == IF a < b THEN a ELSE b

Max(a, b) == IF a > b THEN a ELSE b

FracAdd(x, y) == Frac(x.n * y.d + y.n * x.d, x.d * y.d)

FracMul(x, y) == Frac(x.n * y.n, x.d * y.d)

\* no calculateResponseScore call has returned
NoScore == [called |-> FALSE, platformResponseTime |-> 0, preferredTime |-> 0, score |-> [n |-> 0, d |-> 1]]

\* no selectPlatforms call has returned
NoSelection == [called |-> FALSE, query |-> {}, config |-> <<>>, platforms |-> <<>>, fallbackPlatforms |-> <<>>]

(***************************************************************************)
(* PlatformHealthMonitor.  The lastChecked timestamp of a record, which    *)
(* only exportMetrics reads, is left out.                                  *)
(***************************************************************************)
CACHE_TTL == 60000
MAX_CONSECUTIVE_FAILURES == 3

initMetrics(source) ==
    [ source |-> source,
      successCount |-> 0,
      failureCount |-> 0,
      totalRequests |-> 0,
      successRate |-> [n |-> 1, d |-> 1],
      averageLatency |-> [n |-> 0, d |-> 1],
      consecutiveFailures |-> 0,
      isHealthy |-> TRUE ]

\* the map after getMetrics(source): the record is created on first reference
getMetrics(m, source) ==
    IF source \in DOMAIN m THEN m ELSE m @@ (source :> initMetrics(source))

\* recordSuccess with the success rate taken before successCount is incremented
recordSuccessStaleRate(m, source, latency) ==
    LET m0 == getMetrics(m, source)
        r == m0[source]
    IN [m0 EXCEPT ![source] =
          [r EXCEPT !.successCount = r.successCount + 1,
                    !.totalRequests = r.totalRequests + 1,
                    !.consecutiveFailures = 0,
                    !.successRate = Frac(r.successCount, r.totalRequests + 1),
                    !.isHealthy = TRUE]]

recordSuccess(m, source, latency) ==
    LET m0 == getMetrics(m, source)
        r == m0[source]
        sc == r.successCount + 1
        tr == r.totalRequests + 1
    IN [m0 EXCEPT ![source] =
          [r EXCEPT !.successCount = sc,
                    !.totalRequests = tr,
                    !.consecutiveFailures = 0,
                    !.successRate = Frac(r.successCount + 1, r.totalRequests + 1),
                    !.averageLatency =
                        Frac(r.averageLatency.n * (sc - 1) + latency * r.averageLatency.d,
                             r.averageLatency.d * sc),
                    !.isHealthy = TRUE]]

\* recordFailure with the flag falling at the second consecutive failure
recordFailureAtSecond(m, source) ==
    LET m0 == getMetrics(m, source)
        r == m0[source]
        cf == r.consecutiveFailures + 1
    IN [m0 EXCEPT ![source] =
          [r EXCEPT !.failureCount = r.failureCount + 1,
                    !.totalRequests = r.totalRequests + 1,
                    !.consecutiveFailures = cf,
                    !.successRate = Frac(r.successCount, r.totalRequests + 1),
                    !.isHealthy = IF cf >= 2 THEN FALSE ELSE r.isHealthy]]

recordFailure(m, source) ==
    LET m0 == getMetrics(m, source)
        r == m0[source]
        cf == r.consecutiveFailures + 1
    IN [m0 EXCEPT ![source] =
          [r EXCEPT !.failureCount = r.failureCount + 1,
                    !.totalRequests = r.totalRequests + 1,
                    !.consecutiveFailures = cf,
                    !.successRate = Frac(r.successCount, r.totalRequests + 1),
                    !.isHealthy = IF cf >= MAX_CONSECUTIVE_FAILURES THEN FALSE ELSE r.isHealthy]]

\* isHealthy with a success rate of one half accepted
isHealthyFromHalf(m, source) ==
    LET r == getMetrics(m, source)[source]
    IN r.isHealthy /\ ~FracLess(r.successRate, [n |-> 1, d |-> 2])

isHealthy(m, source) ==
    LET r == getMetrics(m, source)[source]
    IN r.isHealthy /\ FracLess([n |-> 1, d |-> 2], r.successRate)

\* getRetryStrategy with the initial delay scaled from the base delay of 1000 ms
getRetryStrategyBaseDelay(m, source) ==
    LET r == getMetrics(m, source)[source]
        degraded == FracLess(r.successRate, [n |-> 7, d |-> 10])
    IN [ maxRetries |-> IF degraded THEN 2 ELSE 3,
         initialDelay |-> IF r.consecutiveFailures > 0 THEN 1000 * r.consecutiveFailures ELSE 1000,
         maxDelay |-> IF degraded THEN 5000 ELSE 10000,
         backoffMultiplier |-> 2,
         retryableErrors |-> RetryableErrors ]

getRetryStrategy(m, source) ==
    LET r == getMetrics(m, source)[source]
        degraded == FracLess(r.successRate, [n |-> 7, d |-> 10])
    IN [ maxRetries |-> IF degraded THEN 2 ELSE 3,
         initialDelay |-> IF r.consecutiveFailures > 0 THEN 2000 * r.consecutiveFailures ELSE 1000,
         maxDelay |-> IF degraded THEN 5000 ELSE 10000,
         backoffMultiplier |-> 2,
         retryableErrors |-> RetryableErrors ]

isRetryableError(error, strategy) == error \in strategy.retryableErrors

\* resetPlatformHealth that starts the record of the provider afresh
resetPlatformHealthAfresh(m, source) ==
    [getMetrics(m, source) EXCEPT ![source] = initMetrics(source)]

resetPlatformHealthOp(m, source) ==
    LET m0 == getMetrics(m, source)
    IN [m0 EXCEPT ![source].consecutiveFailures = 0, ![source].isHealthy = TRUE]

Without(f, k) == [x \in DOMAIN f \ {k} |-> f[x]]

Put(f, k, v) == [x \in DOMAIN f \cup {k} |-> IF x = k THEN v ELSE f[x]]

RECURSIVE RequestsUpTo(_, _)
RequestsUpTo(m, k) ==
    IF k = 0 THEN 0
    ELSE (IF k \in DOMAIN m THEN m[k].totalRequests ELSE 0) + RequestsUpTo(m, k - 1)

TotalRequests(m) == RequestsUpTo(m, NumProviders)

\* the model stops recording once MaxRequests outcomes have been recorded
MayRecord == TotalRequests(metrics) < MaxRequests

NoStrategy == [maxRetries |-> 0, initialDelay |-> 0, maxDelay |-> 0, backoffMultiplier |-> 0, retryableErrors |-> {}]

IdleRetry == [pc |-> "idle", source |-> 0, attempt |-> 0, delay |-> 0, strategy |-> NoStrategy, error |-> "none"]

IdleProbe == [pc |-> "idle", source |-> 0]

(***************************************************************************)
(* executeWithRetry(source, operation), one step per resumption.           *)
(*   pc = "op"       operation() has been invoked and is awaited           *)
(*   pc = "sleep"    the backoff sleep(delay) is awaited                   *)
(*   pc = "returned" the call returned the operation's result              *)
(*   pc = "thrown"   the call rethrew retry[c].error                       *)
(***************************************************************************)
\* the activation up to its first await: strategy read, operation() invoked once
BeginRecord(m, source) ==
    LET strategy == getRetryStrategy(m, source)
    IN [ pc |-> "op", source |-> source, attempt |-> 0, delay |-> strategy.initialDelay,
         strategy |-> strategy, error |-> "none" ]

RetryBegin(c, source) ==
    /\ retry[c].pc = "idle"
    /\ metrics' = getMetrics(metrics, source)
    /\ retry' = [retry EXCEPT ![c] = BeginRecord(metrics, source)]
    /\ opCalls' = [opCalls EXCEPT ![c] = 1]

RetryOpResolves(c, latency) ==
    /\ retry[c].pc = "op"
    /\ metrics' = recordSuccess(metrics, retry[c].source, latency)
    /\ retry' = [retry EXCEPT ![c].pc = "returned"]
    /\ opCalls' = opCalls

\* RetryOpRejects with the loop going on after attempt maxRetries
RetryOpRejectsUnbounded(c, error) ==
    LET r == retry[c]
        giveUp == ~isRetryableError(error, r.strategy)
    IN /\ r.pc = "op"
       /\ metrics' = recordFailure(metrics, r.source)
       /\ retry' = [retry EXCEPT ![c].pc = IF giveUp THEN "thrown" ELSE "sleep",
                                 ![c].error = error]
       /\ opCalls' = opCalls

\* RetryOpRejects with every error taken as retryable
RetryOpRejectsRetriesAll(c, error) ==
    LET r == retry[c]
        giveUp == r.attempt = r.strategy.maxRetries
    IN /\ r.pc = "op"
       /\ metrics' = recordFailure(metrics, r.source)
       /\ retry' = [retry EXCEPT ![c].pc = IF giveUp THEN "thrown" ELSE "sleep",
                                 ![c].error = error]
       /\ opCalls' = opCalls

RetryOpRejects(c, error) ==
    LET r == retry[c]
        giveUp == ~isRetryableError(error, r.strategy) \/ r.attempt = r.strategy.maxRetries
    IN /\ r.pc = "op"
       /\ metrics' = recordFailure(metrics, r.source)
       /\ retry' = [retry EXCEPT ![c].pc = IF giveUp THEN "thrown" ELSE "sleep",
                                 ![c].error = error]
       /\ opCalls' = opCalls

RetrySleepDone(c) ==
    LET r == retry[c]
    IN /\ r.pc = "sleep"
       /\ retry' = [retry EXCEPT ![c].pc = "op",
                                 ![c].attempt = r.attempt + 1,
                                 ![c].delay = Min(r.delay * r.strategy.backoffMultiplier,
                                                  r.strategy.maxDelay)]
       /\ opCalls' = [opCalls EXCEPT ![c] = opCalls[c] + 1]
       /\ metrics' = metrics

(***************************************************************************)
(* The health monitor called on its own: by the driver factory, by health  *)
(* checks and by any caller that wraps an operation.                       *)
(***************************************************************************)
UNCHANGED_exec == UNCHANGED <<execVars, otherVars>>

\* getMetrics / isHealthy / getRetryStrategy: a first reference creates the record
GetMetrics(source) ==
    /\ metrics' = getMetrics(metrics, source)
    /\ UNCHANGED <<now, healthCheckCache, retry, probe, opCalls>>
    /\ UNCHANGED_exec

RecordSuccess(source, latency) ==
    /\ MayRecord
    /\ metrics' = recordSuccess(metrics, source, latency)
    /\ UNCHANGED <<now, healthCheckCache, retry, probe, opCalls>>
    /\ UNCHANGED_exec

RecordFailure(source) ==
    /\ MayRecord
    /\ metrics' = recordFailure(metrics, source)
    /\ UNCHANGED <<now, healthCheckCache, retry, probe, opCalls>>
    /\ UNCHANGED_exec

ExecuteWithRetry(c, source) ==
    /\ RetryBegin(c, source)
    /\ UNCHANGED <<now, healthCheckCache, probe>>
    /\ UNCHANGED_exec

OperationResolves(c, latency) ==
    /\ MayRecord
    /\ RetryOpResolves(c, latency)
    /\ UNCHANGED <<now, healthCheckCache, probe>>
    /\ UNCHANGED_exec

OperationRejects(c, error) ==
    /\ MayRecord
    /\ RetryOpRejects(c, error)
    /\ UNCHANGED <<now, healthCheckCache, probe>>
    /\ UNCHANGED_exec

SleepElapsed(c) ==
    /\ RetrySleepDone(c)
    /\ UNCHANGED <<now, healthCheckCache, probe>>
    /\ UNCHANGED_exec

\* the caller has taken the result or the error: the activation is gone
RetryCompleted(c) ==
    /\ retry[c].pc \in {"returned", "thrown"}
    /\ retry' = [retry EXCEPT ![c] = IdleRetry]
    /\ opCalls' = [opCalls EXCEPT ![c] = 0]
    /\ UNCHANGED <<now, metrics, healthCheckCache, probe>>
    /\ UNCHANGED_exec

\* CacheFresh with a result of exactly CACHE_TTL still taken as fresh
CacheFreshInclusive(cache, source, t) ==
    source \in DOMAIN cache /\ t - cache[source].timestamp <= CACHE_TTL

CacheFresh(cache, source, t) ==
    source \in DOMAIN cache /\ t - cache[source].timestamp < CACHE_TTL

\* checkHealth up to await healthCheckFn(); a fresh cached result is returned at once
CheckHealth(q, source) ==
    /\ probe[q].pc = "idle"
    /\ IF CacheFresh(healthCheckCache, source, now)
       THEN probe' = probe
       ELSE probe' = [probe EXCEPT ![q] = [pc |-> "probing", source |-> source]]
    /\ UNCHANGED <<now, metrics, healthCheckCache, retry, opCalls>>
    /\ UNCHANGED_exec

\* healthCheckFn() resolved with status.healthy; latency is the value of
\* status.latency || Date.now() - startTime
ProbeResolves(q, healthy, latency) ==
    LET source == probe[q].source
        measured == latency
    IN /\ probe[q].pc = "probing"
       /\ MayRecord
       /\ metrics' = IF healthy THEN recordSuccess(metrics, source, measured)
                                 ELSE recordFailure(metrics, source)
       /\ healthCheckCache' = Put(healthCheckCache, source, [healthy |-> healthy, timestamp |-> now])
       /\ probe' = [probe EXCEPT ![q] = IdleProbe]
       /\ UNCHANGED <<now, retry, opCalls>>
       /\ UNCHANGED_exec

ProbeRejects(q) ==
    LET source == probe[q].source
    IN /\ probe[q].pc = "probing"
       /\ MayRecord
       /\ metrics' = recordFailure(metrics, source)
       /\ healthCheckCache' = Put(healthCheckCache, source, [healthy |-> FALSE, timestamp |-> now])
       /\ probe' = [probe EXCEPT ![q] = IdleProbe]
       /\ UNCHANGED <<now, retry, opCalls>>
       /\ UNCHANGED_exec

ResetPlatformHealth(source) ==
    /\ metrics' = resetPlatformHealthOp(metrics, source)
    /\ healthCheckCache' = Without(healthCheckCache, source)
    /\ UNCHANGED <<now, retry, probe, opCalls>>
    /\ UNCHANGED_exec

\* ClearCache that forgets the health records too
ClearCacheAndMetrics ==
    /\ healthCheckCache' = <<>>
    /\ metrics' = <<>>
    /\ UNCHANGED <<now, retry, probe, opCalls>>
    /\ UNCHANGED_exec

ClearCache ==
    /\ healthCheckCache' = <<>>
    /\ UNCHANGED <<now, metrics, retry, probe, opCalls>>
    /\ UNCHANGED_exec

Tick(d) ==
    /\ now + d <= MaxTime
    /\ now' = now + d
    /\ UNCHANGED <<metrics, healthCheckCache, retry, probe, opCalls>>
    /\ UNCHANGED_exec

(***************************************************************************)
(* RateLimiter.  tokens is kept in thousandths of a token, which makes     *)
(* elapsed milliseconds times refillRate the amount refill() adds.         *)
(***************************************************************************)
TokenUnit == 1000

refill(tk, last, t, opt) ==
    LET elapsed == t - last
        tokensToAdd == elapsed * opt.refillRate
    IN [ tokens |-> Min(opt.maxTokens * TokenUnit, tk + tokensToAdd), lastRefill |-> t ]

IdleAcquire == [pc |-> "idle", wakeAt |-> 0]

UNCHANGED_allButRate ==
    UNCHANGED <<metrics, healthCheckCache, retry, probe, opCalls, execVars, dedupVars, strategyVars, callerVars>>

\* acquire() up to its first await: refill() has run, its promise is awaited
Acquire(a) ==
    LET r == refill(tokens, lastRefill, now, options)
    IN /\ acq[a].pc = "idle"
       /\ tokens' = r.tokens
       /\ lastRefill' = r.lastRefill
       /\ acq' = [acq EXCEPT ![a].pc = "refilled"]
       /\ microtasks' = Append(microtasks, a)
       /\ UNCHANGED <<now, options>>
       /\ UNCHANGED_allButRate

\* after await this.refill(): wait if less than one token is there, else consume
AcquireCheck(a) ==
    LET waitTime == ((TokenUnit - tokens) * 1000) \div (options.refillRate * TokenUnit)
    IN /\ microtasks # <<>> /\ Head(microtasks) = a
       /\ acq[a].pc = "refilled"
       /\ microtasks' = Tail(microtasks)
       /\ IF tokens < TokenUnit
          THEN /\ acq' = [acq EXCEPT ![a] = [pc |-> "waiting", wakeAt |-> now + waitTime]]
               /\ tokens' = tokens
          ELSE /\ acq' = [acq EXCEPT ![a] = IdleAcquire]
               /\ tokens' = tokens - TokenUnit
       /\ UNCHANGED <<now, options, lastRefill>>
       /\ UNCHANGED_allButRate

\* the setTimeout of the wait fires: refill() runs again and is awaited
AcquireWake(a) ==
    LET r == refill(tokens, lastRefill, now, options)
    IN /\ microtasks = <<>>
       /\ acq[a].pc = "waiting"
       /\ now >= acq[a].wakeAt
       /\ tokens' = r.tokens
       /\ lastRefill' = r.lastRefill
       /\ acq' = [acq EXCEPT ![a].pc = "woken"]
       /\ microtasks' = Append(microtasks, a)
       /\ UNCHANGED <<now, options>>
       /\ UNCHANGED_allButRate

\* after the second await this.refill(): this.tokens -= 1
AcquireConsume(a) ==
    /\ microtasks # <<>> /\ Head(microtasks) = a
    /\ acq[a].pc = "woken"
    /\ microtasks' = Tail(microtasks)
    /\ acq' = [acq EXCEPT ![a] = IdleAcquire]
    /\ tokens' = tokens - TokenUnit
    /\ UNCHANGED <<now, options, lastRefill>>
    /\ UNCHANGED_allButRate

\* time passes while no microtask is pending
RateTick(d) ==
    /\ microtasks = <<>>
    /\ now + d <= MaxRateTime
    /\ now' = now + d
    /\ UNCHANGED rateVars
    /\ UNCHANGED_allButRate

(***************************************************************************)
(* ResultProcessor.  A string is the sequence of its characters.  A paper  *)
(* is a record; a list of papers is known by the positions of its elements *)
(* (the objects), so that equal records stay distinct papers.              *)
(***************************************************************************)
Space == " "

IsSpace(c) == c = Space

\* \w of a JavaScript regular expression
IsWord(c) == c \in {"a", "b", "c", "l", "m", "x", "y", "A", "B", "L", "X", "0", "1", "_"}

Lower(c) ==
    IF c = "A" THEN "a" ELSE IF c = "B" THEN "b" ELSE IF c = "L" THEN "l" ELSE IF c = "X" THEN "x" ELSE c

toLowerCase(str) == [i \in 1..Len(str) |-> Lower(str[i])]

RECURSIVE TrimStart(_)
TrimStart(str) == IF str # <<>> /\ IsSpace(Head(str)) THEN TrimStart(Tail(str)) ELSE str

RECURSIVE TrimEnd(_)
TrimEnd(str) ==
    IF str # <<>> /\ IsSpace(str[Len(str)]) THEN TrimEnd(SubSeq(str, 1, Len(str) - 1)) ELSE str

trim(str) == TrimEnd(TrimStart(str))

KeepWordOrSpace(c) == IsWord(c) \/ IsSpace(c)

\* replace(/[^\w\s]/g, '')
StripPunctuation(str) == SelectSeq(str, KeepWordOrSpace)

RECURSIVE CollapseSpaces(_)
\* replace(/\s+/g, ' ')
CollapseSpaces(str) ==
    IF str = <<>> THEN <<>>
    ELSE IF IsSpace(Head(str))
         THEN <<Space>> \o CollapseSpaces(TrimStart(str))
         ELSE <<Head(str)>> \o CollapseSpaces(Tail(str))

createTitleKey(title) == CollapseSpaces(StripPunctuation(trim(toLowerCase(title))))

\* if (paper.doi): an absent and an empty doi are both falsy
HasDoi(paper) == paper.doi # <<>>

\* twice the score isMoreComplete computes; an absent citationCount or keywords is -1
CompletenessScore(paper) ==
    (IF HasDoi(paper) THEN 20 ELSE 0)
    + (IF paper.abstract THEN 10 ELSE 0)
    + (IF paper.citationCount > 0 THEN 6 ELSE 0)
    + (IF paper.fullTextAvailable THEN 4 ELSE 0)
    + 2 * Len(paper.authors)
    + (IF paper.keywords > 0 THEN paper.keywords ELSE 0)

\* isMoreComplete that lets a later paper of equal score win
isAtLeastAsComplete(paperA, paperB) == CompletenessScore(paperA) >= CompletenessScore(paperB)

isMoreComplete(paperA, paperB) == CompletenessScore(paperA) > CompletenessScore(paperB)

DedupKey(paper) ==
    IF HasDoi(paper)
    THEN trim(toLowerCase(paper.doi))
    ELSE createTitleKey(paper.title) \o <<"|">>
         \o (IF Len(paper.authors) > 0 THEN trim(toLowerCase(paper.authors[1])) ELSE <<>>)

\* the Map seen after the loop over the first n papers: entries [key, paper]
\* in insertion order, paper being the position of the paper in ps
RECURSIVE SeenAfter(_, _)
SeenAfter(ps, n) ==
    IF n = 0 THEN <<>>
    ELSE LET seen == SeenAfter(ps, n - 1)
             key == DedupKey(ps[n])
             at == {j \in 1..Len(seen) : seen[j].key = key}
         IN IF at = {}
            THEN Append(seen, [key |-> key, paper |-> n])
            ELSE LET j == CHOOSE x \in at : TRUE
                 IN IF isMoreComplete(ps[n], ps[seen[j].paper])
                    THEN [seen EXCEPT ![j].paper = n]
                    ELSE seen

\* Array.from(seen.values()), as positions in ps
deduplicatePapers(ps) ==
    LET seen == SeenAfter(ps, Len(ps))
    IN [j \in 1..Len(seen) |-> seen[j].paper]

RECURSIVE AllPapers(_)
\* the papers of the wrappers that carry a result, in order
AllPapers(wrappers) ==
    IF wrappers = <<>> THEN <<>>
    ELSE (IF Head(wrappers).hasResult THEN Head(wrappers).papers ELSE <<>>)
         \o AllPapers(Tail(wrappers))

\* merged before the call; enableDeduplication and allPapers keep the call's argument and local
NotMerged ==
    [done |-> FALSE, enableDeduplication |-> FALSE, allPapers |-> <<>>, papers |-> <<>>, duplicateCount |-> 0]

mergeAndDeduplicateResults(wrappers, enableDeduplication) ==
    LET allPapers == AllPapers(wrappers)
        uniquePapers == deduplicatePapers(allPapers)
    IN IF ~enableDeduplication
       THEN [ done |-> TRUE, enableDeduplication |-> FALSE, allPapers |-> allPapers,
              papers |-> [j \in 1..Len(allPapers) |-> j], duplicateCount |-> 0 ]
       ELSE [ done |-> TRUE, enableDeduplication |-> TRUE, allPapers |-> allPapers,
              papers |-> uniquePapers, duplicateCount |-> Len(allPapers) - Len(uniquePapers) ]

MergeAndDeduplicate(enableDeduplication) ==
    /\ ~merged.done
    /\ merged' = mergeAndDeduplicateResults(mergeInput, enableDeduplication)
    /\ UNCHANGED <<mergeInput, healthVars, execVars, rateVars, callerVars, strategyVars>>

(***************************************************************************)
(* SearchTaskManager                                                       *)
(***************************************************************************)
\* successRate * 100 - averageLatency / 10, as a fraction with d > 0
Priority(r) ==
    [ n |-> r.successRate.n * 100 * r.averageLatency.d * 10 - r.averageLatency.n * r.successRate.d,
      d |-> r.successRate.d * r.averageLatency.d * 10 ]

\* Array.prototype.sort with (a, b) => b.priority - a.priority: stable, descending
RECURSIVE InsertByPriority(_, _)
InsertByPriority(sorted, task) ==
    IF sorted = <<>> THEN <<task>>
    ELSE IF FracLess(Head(sorted).priority, task.priority)
         THEN <<task>> \o sorted
         ELSE <<Head(sorted)>> \o InsertByPriority(Tail(sorted), task)

\* createSearchTasks without its sort: the tasks in the order of the drivers
SortByInputOrder(ts) == ts

RECURSIVE SortByPriority(_)
SortByPriority(ts) ==
    IF ts = <<>> THEN <<>>
    ELSE InsertByPriority(SortByPriority(SubSeq(ts, 1, Len(ts) - 1)), ts[Len(ts)])

createSearchTasks(ds, m) ==
    SortByPriority([k \in 1..Len(ds) |->
        LET r == getMetrics(m, ds[k])[ds[k]]
        IN [ source |-> ds[k],
             priority |-> Priority(r),
             estimate |-> [ latency |-> IF r.averageLatency.n = 0 THEN [n |-> 1000, d |-> 1]
                                         ELSE r.averageLatency,
                            reliability |-> r.successRate ] ]])

RECURSIVE SumLatencyNum(_, _)
\* numerator of the sum of the latency estimates over the common denominator den
SumLatencyNum(ts, den) ==
    IF ts = <<>> THEN 0
    ELSE Head(ts).estimate.latency.n * (den \div Head(ts).estimate.latency.d)
         + SumLatencyNum(Tail(ts), den)

RECURSIVE DenProduct(_)
DenProduct(ts) == IF ts = <<>> THEN 1 ELSE Head(ts).estimate.latency.d * DenProduct(Tail(ts))

calculateOptimalConcurrency(ts, maxConcurrency) ==
    LET n == Len(ts)
        unhealthyTasks == Cardinality({k \in 1..n :
                              ~FracLess([n |-> 7, d |-> 10], ts[k].estimate.reliability)})
        c1 == IF unhealthyTasks * 10 > n * 3
              THEN Max(2, (maxConcurrency * 6) \div 10)
              ELSE maxConcurrency
        den == DenProduct(ts)
        \* sum / n > 5000; for n = 0 the quotient is NaN and the comparison false
        slow == n > 0 /\ SumLatencyNum(ts, den) > 5000 * n * den
        c2 == IF slow THEN Min(maxConcurrency, (c1 * 3 + 1) \div 2) ELSE c1
    IN Max(1, Min(c2, n))

(***************************************************************************)
(* ExecutionStrategies.  Task k of the run is executed by activation k of  *)
(* executeWithRetry; executeSearchTask turns its outcome into a wrapper    *)
(* and never rejects.                                                      *)
(***************************************************************************)
\* no timer has been set: armed tells whether a timer is pending, set counts the
\* setTimeout calls, acquirer names the acquire() activation of the attempt
NoTimer == [armed |-> FALSE, set |-> 0, acquirer |-> 0]

\* response before the entry point has returned or thrown
NoResponse == [status |-> "none", warnings |-> <<>>]

Strategies == {"full_parallel", "batch_parallel", "smart_parallel", "sequential"}

NoWrapper == [source |-> 0, result |-> "none", error |-> "none"]

\* a result wrapper that keeps an error of the attempts before the successful one
ResultWrapperWithError(source) == [source |-> source, result |-> "papers", error |-> "ETIMEDOUT"]

ResultWrapper(source) == [source |-> source, result |-> "papers", error |-> "none"]

ErrorWrapper(source, error) == [source |-> source, result |-> "none", error |-> error]

IsSettled(k) == settled[k].source # 0

InFlight == {k \in 1..Len(tasks) : retry[k].pc \in {"op", "sleep"}}

\* the tasks map(task => executeSearchTask(task)) starts, each up to its first await
StartTasks(S, ts, m) ==
    /\ retry' = [c \in DOMAIN retry |->
                   IF c \in S THEN BeginRecord(m, ts[c].source) ELSE retry[c]]
    /\ opCalls' = [c \in DOMAIN opCalls |-> IF c \in S THEN 1 ELSE opCalls[c]]

RECURSIVE MetricsOfAll(_, _)
MetricsOfAll(m, ds) ==
    IF ds = <<>> THEN m ELSE MetricsOfAll(getMetrics(m, Head(ds)), Tail(ds))

\* batchSize = config.batchSize || 3
BatchSize(cfg) == IF cfg.batchSize = 0 THEN 3 ELSE cfg.batchSize

\* executing.findIndex(async p => await p === result): the callback is async, so
\* what it returns for the first element is a promise, which is truthy
FindIndex(exec, result) == IF exec = <<>> THEN 0 ELSE 1

Splice(exec, index) == SubSeq(exec, 1, index - 1) \o SubSeq(exec, index + 1, Len(exec))

\* Promise.race(executing) when some promise has settled already: the first in the array
FirstSettled(exec, st) ==
    IF \E j \in 1..Len(exec) : st[exec[j]].source # 0
    THEN exec[CHOOSE j \in 1..Len(exec) :
                 /\ st[exec[j]].source # 0
                 /\ \A h \in 1..(j - 1) : st[exec[h]].source = 0]
    ELSE 0

\* ControllerReady with a batch awaited until the first of its tasks has settled
ControllerReadyFirstOfBatch ==
    \/ spc = "awaitAll" /\ \A k \in 1..Len(tasks) : IsSettled(k)
    \/ spc = "awaitBatch" /\ \E k \in (taskIndex + 1)..Min(taskIndex + BatchSize(config), Len(tasks)) : IsSettled(k)
    \/ spc = "awaitRace" /\ wake # 0
    \/ spc = "awaitSeq" /\ IsSettled(taskIndex)

ControllerReady ==
    \/ spc = "awaitAll" /\ \A k \in 1..Len(tasks) : IsSettled(k)
    \/ spc = "awaitBatch" /\ \A k \in (taskIndex + 1)..Min(taskIndex + BatchSize(config), Len(tasks)) : IsSettled(k)
    \/ spc = "awaitRace" /\ wake # 0
    \/ spc = "awaitSeq" /\ IsSettled(taskIndex)

executeParallelSearch(ds, cfg) ==
    LET m == MetricsOfAll(metrics, ds)
        ts == createSearchTasks(ds, metrics)
        n == Len(ts)
        c == calculateOptimalConcurrency(ts, cfg.maxConcurrency)
        first == IF cfg.strategy = "full_parallel" THEN 1..n
                 ELSE IF cfg.strategy = "batch_parallel" THEN 1..Min(BatchSize(cfg), n)
                 ELSE IF cfg.strategy = "smart_parallel" THEN 1..Min(c, n)
                 ELSE 1..Min(1, n)
    IN /\ spc = "idle"
       /\ drivers' = ds
       /\ config' = cfg
       /\ tasks' = ts
       /\ metrics' = m
       /\ StartTasks(first, ts, m)
       /\ results' = <<>>
       /\ settled' = [k \in 1..n |-> NoWrapper]
       /\ wake' = 0
       /\ concurrency' = IF cfg.strategy = "smart_parallel" THEN c ELSE 0
       /\ executing' = IF cfg.strategy = "smart_parallel" THEN [k \in first |-> k] ELSE <<>>
       /\ taskIndex' = IF cfg.strategy = "smart_parallel" THEN Min(c, n)
                        ELSE IF cfg.strategy = "sequential" THEN Min(1, n)
                        ELSE 0
       /\ spc' = IF cfg.strategy = "full_parallel" THEN "awaitAll"
                  ELSE IF n = 0 THEN "done"
                  ELSE IF cfg.strategy = "batch_parallel" THEN "awaitBatch"
                  ELSE IF cfg.strategy = "smart_parallel" THEN "awaitRace"
                  ELSE "awaitSeq"
       /\ abandoned' = [k \in 1..n |-> 0]
       /\ UNCHANGED <<now, healthCheckCache, probe, rateVars, dedupVars, strategyVars, response, timer>>

\* the continuation of executeSearchTask once executeWithRetry has returned or thrown
Settle(k, wrapper) ==
    /\ settled' = [settled EXCEPT ![k] = wrapper]
    /\ wake' = IF spc = "awaitRace" /\ wake = 0 /\ \E j \in 1..Len(executing) : executing[j] = k
               THEN k ELSE wake
    /\ UNCHANGED <<drivers, config, tasks, spc, results, executing, taskIndex, concurrency>>

TaskRunning(k) == spc # "idle" /\ k \in 1..Len(tasks) /\ ~ControllerReady

SearchResolves(k, latency) ==
    /\ TaskRunning(k)
    /\ RetryOpResolves(k, latency)
    /\ Settle(k, ResultWrapper(tasks[k].source))
    /\ UNCHANGED <<now, healthCheckCache, probe, otherVars>>

SearchRejects(k, error) ==
    /\ TaskRunning(k)
    /\ RetryOpRejects(k, error)
    /\ IF retry'[k].pc = "thrown"
       THEN Settle(k, ErrorWrapper(tasks[k].source, error))
       ELSE UNCHANGED execVars
    /\ abandoned' = IF error = TimeoutError THEN [abandoned EXCEPT ![k] = abandoned[k] + 1] ELSE abandoned
    /\ UNCHANGED <<now, healthCheckCache, probe, rateVars, dedupVars, strategyVars, response, timer>>

BackoffElapsed(k) ==
    /\ TaskRunning(k)
    /\ RetrySleepDone(k)
    /\ UNCHANGED <<now, healthCheckCache, probe, otherVars>>
    /\ UNCHANGED execVars

\* r.result.papers of a successful search of a provider: the first two
\* providers return the same paper under two spellings of its identifier, the
\* second one more paper, every other provider none
PapersOf(source) ==
    LET paper(doi, abstract) ==
            [ doi |-> doi, title |-> <<"c">>, authors |-> <<>>, abstract |-> abstract,
              citationCount |-> -1, fullTextAvailable |-> FALSE, keywords |-> -1 ]
    IN IF source = 1 THEN <<paper(<<"X">>, FALSE)>>
       ELSE IF source = 2 THEN <<paper(<<"x", " ">>, TRUE), paper(<<"y">>, FALSE)>>
       ELSE <<>>

RECURSIVE PapersOfResults(_)
\* successfulResults.flatMap(r => r.result.papers)
PapersOfResults(rs) ==
    IF rs = <<>> THEN <<>>
    ELSE (IF Head(rs).result # "none" THEN PapersOf(Head(rs).source) ELSE <<>>)
         \o PapersOfResults(Tail(rs))

\* calculateMetrics that counts the platforms heard of, not the wrappers
calculateMetricsBySource(rs, totalPlatforms) ==
    LET allPapers == PapersOfResults(rs)
        uniquePapers == deduplicatePapers(allPapers)
    IN [ platformCount |-> totalPlatforms,
         successfulPlatforms |-> Cardinality({rs[i].source : i \in {j \in 1..Len(rs) : rs[j].result # "none"}}),
         failedPlatforms |-> Cardinality({rs[i].source : i \in {j \in 1..Len(rs) : rs[j].error # "none"}}),
         totalPapers |-> Len(allPapers),
         uniquePapers |-> Len(uniquePapers),
         duplicatePapers |-> Len(allPapers) - Len(uniquePapers) ]

\* ResultProcessor.calculateMetrics: the counts of the returned metrics
calculateMetrics(rs, totalPlatforms) ==
    LET allPapers == PapersOfResults(rs)
        uniquePapers == deduplicatePapers(allPapers)
    IN [ platformCount |-> totalPlatforms,
         successfulPlatforms |-> Cardinality({i \in 1..Len(rs) : rs[i].result # "none"}),
         failedPlatforms |-> Cardinality({i \in 1..Len(rs) : rs[i].error # "none"}),
         totalPapers |-> Len(allPapers),
         uniquePapers |-> Len(uniquePapers),
         duplicatePapers |-> Len(allPapers) - Len(uniquePapers) ]

\* the metrics executeParallelSearch returns with the results of a finished run
ReturnedMetrics == calculateMetrics(results, Len(drivers))

\* executeFullParallel after await Promise.allSettled(promises)
executeFullParallel ==
    /\ spc = "awaitAll"
    /\ ControllerReady
    /\ results' = [k \in 1..Len(tasks) |-> settled[k]]
    /\ spc' = "done"
    /\ UNCHANGED <<drivers, config, tasks, executing, taskIndex, settled, wake, concurrency>>
    /\ UNCHANGED <<healthVars, otherVars>>

\* executeBatchParallel putting each finished batch in front of the results
executeBatchParallelPrepend ==
    LET n == Len(tasks)
        i == taskIndex
        batch == (i + 1)..Min(i + BatchSize(config), n)
        processedResults == [j \in 1..Cardinality(batch) |-> settled[i + j]]
        next == i + BatchSize(config)
    IN /\ spc = "awaitBatch"
       /\ ControllerReady
       /\ results' = processedResults \o results
       /\ taskIndex' = next
       /\ IF next < n
          THEN /\ StartTasks((next + 1)..Min(next + BatchSize(config), n), tasks, metrics)
               /\ spc' = "awaitBatch"
          ELSE /\ UNCHANGED <<retry, opCalls>>
               /\ spc' = "done"
       /\ UNCHANGED <<drivers, config, tasks, executing, settled, wake, concurrency>>
       /\ UNCHANGED <<now, metrics, healthCheckCache, probe, otherVars>>

\* executeBatchParallel after await Promise.allSettled(batchPromises)
executeBatchParallel ==
    LET n == Len(tasks)
        i == taskIndex
        batch == (i + 1)..Min(i + BatchSize(config), n)
        processedResults == [j \in 1..Cardinality(batch) |-> settled[i + j]]
        next == i + BatchSize(config)
    IN /\ spc = "awaitBatch"
       /\ ControllerReady
       /\ results' = results \o processedResults
       /\ taskIndex' = next
       /\ IF next < n
          THEN /\ StartTasks((next + 1)..Min(next + BatchSize(config), n), tasks, metrics)
               /\ spc' = "awaitBatch"
          ELSE /\ UNCHANGED <<retry, opCalls>>
               /\ spc' = "done"
       /\ UNCHANGED <<drivers, config, tasks, executing, settled, wake, concurrency>>
       /\ UNCHANGED <<now, metrics, healthCheckCache, probe, otherVars>>

\* executeSequential after await this.executeSearchTask(task)
executeSequential ==
    /\ spc = "awaitSeq"
    /\ ControllerReady
    /\ results' = Append(results, settled[taskIndex])
    /\ IF taskIndex < Len(tasks)
       THEN /\ StartTasks({taskIndex + 1}, tasks, metrics)
            /\ taskIndex' = taskIndex + 1
            /\ spc' = "awaitSeq"
       ELSE /\ UNCHANGED <<retry, opCalls, taskIndex>>
            /\ spc' = "done"
    /\ UNCHANGED <<drivers, config, tasks, executing, settled, wake, concurrency>>
    /\ UNCHANGED <<now, metrics, healthCheckCache, probe, otherVars>>

\* executeSmartParallel after await Promise.race(executing): push the result,
\* splice, then the next iteration of the loop up to its await
executeSmartParallel ==
    LET n == Len(tasks)
        result == settled[wake]
        index == FindIndex(executing, result)
        spliced == IF index # 0 THEN Splice(executing, index) ELSE executing
        room == Min(concurrency - Len(spliced), n - taskIndex)
        started == (taskIndex + 1)..(taskIndex + room)
        refilled == spliced \o [j \in 1..room |-> taskIndex + j]
    IN /\ spc = "awaitRace"
       /\ ControllerReady
       /\ results' = Append(results, result)
       /\ executing' = refilled
       /\ taskIndex' = taskIndex + Max(room, 0)
       /\ IF room > 0 THEN StartTasks(started, tasks, metrics) ELSE UNCHANGED <<retry, opCalls>>
       /\ IF refilled = <<>>
          THEN spc' = "done" /\ wake' = 0
          ELSE spc' = "awaitRace" /\ wake' = FirstSettled(refilled, settled)
       /\ UNCHANGED <<drivers, config, tasks, settled, concurrency>>
       /\ UNCHANGED <<now, metrics, healthCheckCache, probe, otherVars>>

(***************************************************************************)
(* The state after module load: the singletons are constructed, no search  *)
(* has been requested.                                                     *)
(***************************************************************************)
DefaultConfig == [strategy |-> "smart_parallel", maxConcurrency |-> 10, batchSize |-> 3, timeout |-> 30000]

\* the configurations a caller passes: the defaults with some fields overridden
ConfigSet ==
    {[DefaultConfig EXCEPT !.strategy = "full_parallel"], [DefaultConfig EXCEPT !.strategy = "sequential"]}
    \cup {[DefaultConfig EXCEPT !.strategy = "batch_parallel", !.batchSize = b] : b \in 0..MaxBatchSize}
    \cup {[DefaultConfig EXCEPT !.maxConcurrency = c] : c \in 1..MaxConcurrency}

\* lists of registered drivers, one per source
DriverLists ==
    UNION {{ds \in [1..n -> Providers] : \A i, j \in 1..n : i # j => ds[i] # ds[j]} : n \in 0..NumProviders}

InitHealth ==
    /\ now = 0
    /\ metrics = <<>>
    /\ healthCheckCache = <<>>
    /\ probe = [q \in Probers |-> IdleProbe]

InitExec ==
    /\ drivers = <<>>
    /\ config = DefaultConfig
    /\ tasks = <<>>
    /\ spc = "idle"
    /\ results = <<>>
    /\ executing = <<>>
    /\ taskIndex = 0
    /\ settled = <<>>
    /\ wake = 0
    /\ concurrency = 0
    /\ response = NoResponse
    /\ abandoned = <<>>
    /\ timer = NoTimer
    /\ responseScore = NoScore
    /\ selection = NoSelection

\* limiter options: those of the default driver configuration, and a faster refill
OptionSet == {[maxTokens |-> 1, refillRate |-> 1], [maxTokens |-> 3, refillRate |-> 1], [maxTokens |-> 3, refillRate |-> 2]}

\* new RateLimiter(options) at time t
InitRate(opt, t) ==
    /\ options = opt
    /\ tokens = opt.maxTokens * TokenUnit
    /\ lastRefill = t
    /\ acq = [a \in Acquirers |-> IdleAcquire]
    /\ microtasks = <<>>

InitDedup ==
    /\ mergeInput = <<>>
    /\ merged = NotMerged

InitOther ==
    /\ InitRate([maxTokens |-> 10, refillRate |-> 1], 0)
    /\ InitDedup

vars == <<healthVars, execVars, rateVars, dedupVars, callerVars, strategyVars>>

(***************************************************************************)
(* Spec: one executeParallelSearch run on a fresh process.                 *)
(***************************************************************************)
Init ==
    /\ InitHealth
    /\ InitExec
    /\ InitOther
    /\ retry = [c \in Providers |-> IdleRetry]
    /\ opCalls = [c \in Providers |-> 0]

Next ==
    \/ \E ds \in DriverLists, cfg \in ConfigSet : executeParallelSearch(ds, cfg)
    \/ \E k \in Providers, latency \in LatencySet : SearchResolves(k, latency)
    \/ \E k \in Providers, error \in SearchErrorSet : SearchRejects(k, error)
    \/ \E k \in Providers : BackoffElapsed(k)
    \/ executeFullParallel
    \/ executeBatchParallel
    \/ executeSmartParallel
    \/ executeSequential

Spec == Init /\ [][Next]_vars

(***************************************************************************)
(* SpecHealth: the health monitor under any interleaving of its callers,   *)
(* with time passing.                                                      *)
(***************************************************************************)
HealthSources == 1..NumHealthSources

InitHealthMonitor ==
    /\ InitHealth
    /\ InitExec
    /\ InitOther
    /\ retry = [c \in Callers |-> IdleRetry]
    /\ opCalls = [c \in Callers |-> 0]

NextHealth ==
    \/ \E s \in HealthSources : GetMetrics(s)
    \/ \E s \in HealthSources, latency \in LatencySet : RecordSuccess(s, latency)
    \/ \E s \in HealthSources : RecordFailure(s)
    \/ \E c \in Callers, s \in HealthSources : ExecuteWithRetry(c, s)
    \/ \E c \in Callers, latency \in LatencySet : OperationResolves(c, latency)
    \/ \E c \in Callers, error \in ErrorSet : OperationRejects(c, error)
    \/ \E c \in Callers : SleepElapsed(c)
    \/ \E c \in Callers : RetryCompleted(c)
    \/ \E q \in Probers, s \in HealthSources : CheckHealth(q, s)
    \/ \E q \in Probers, healthy \in BOOLEAN, latency \in LatencySet : ProbeResolves(q, healthy, latency)
    \/ \E q \in Probers : ProbeRejects(q)
    \/ \E s \in HealthSources : ResetPlatformHealth(s)
    \/ ClearCache
    \/ \E d \in TickSteps : Tick(d)

SpecHealth == InitHealthMonitor /\ [][NextHealth]_vars

(***************************************************************************)
(* SpecSmart: one smart-parallel run over NumSmartTasks registered         *)
(* drivers.                                                                *)
(***************************************************************************)
SmartTasks == 1..NumSmartTasks

InitSmart ==
    /\ InitHealth
    /\ InitExec
    /\ InitOther
    /\ retry = [c \in SmartTasks |-> IdleRetry]
    /\ opCalls = [c \in SmartTasks |-> 0]

NextSmart ==
    \/ \E c \in 1..MaxConcurrency :
          executeParallelSearch([k \in SmartTasks |-> k], [DefaultConfig EXCEPT !.maxConcurrency = c])
    \/ \E k \in SmartTasks, latency \in LatencySet : SearchResolves(k, latency)
    \/ \E k \in SmartTasks, error \in SearchErrorSet : SearchRejects(k, error)
    \/ \E k \in SmartTasks : BackoffElapsed(k)
    \/ executeSmartParallel

SpecSmart == InitSmart /\ [][NextSmart]_vars

(***************************************************************************)
(* SpecRate: one RateLimiter and overlapping acquire() calls on it.        *)
(***************************************************************************)
InitRateLimiter ==
    /\ InitHealth
    /\ InitExec
    /\ InitDedup
    /\ retry = <<>>
    /\ opCalls = <<>>
    /\ \E opt \in OptionSet : InitRate(opt, 0)

NextRate ==
    \/ \E a \in Acquirers : Acquire(a)
    \/ \E a \in Acquirers : AcquireCheck(a)
    \/ \E a \in Acquirers : AcquireWake(a)
    \/ \E a \in Acquirers : AcquireConsume(a)
    \/ \E d \in RateTickSteps : RateTick(d)

SpecRate == InitRateLimiter /\ [][NextRate]_vars

(***************************************************************************)
(* SpecDedup: one mergeAndDeduplicateResults call on the wrappers of a run. *)
(***************************************************************************)
\* the fields isMoreComplete reads besides doi and authors
Profiles ==
    { [abstract |-> FALSE, citationCount |-> -1, fullTextAvailable |-> FALSE, keywords |-> -1],
      [abstract |-> TRUE, citationCount |-> -1, fullTextAvailable |-> FALSE, keywords |-> -1],
      [abstract |-> FALSE, citationCount |-> 7, fullTextAvailable |-> TRUE, keywords |-> -1],
      [abstract |-> FALSE, citationCount |-> 0, fullTextAvailable |-> TRUE, keywords |-> 2] }

DoiSet == {<<"X">>, <<"x", " ">>, <<"y">>}

TitleSet == {<<"a", " ", "b">>, <<"A", " ", " ", "B", ".">>, <<"a", " ", ".">>, <<"a", " ">>}

AuthorLists == {<<>>, <<<<"L">>>>, <<<<" ", "l">>, <<"m">>>>}

Paper(doi, title, authors, profile) ==
    [ doi |-> doi, title |-> title, authors |-> authors, abstract |-> profile.abstract,
      citationCount |-> profile.citationCount, fullTextAvailable |-> profile.fullTextAvailable,
      keywords |-> profile.keywords ]

\* papers with an identifier, which differ in its spelling and in their score
DoiPapers ==
    {Paper(doi, <<"c">>, <<>>, profile) : doi \in {<<"X">>, <<"x", " ">>}, profile \in Profiles}
    \cup {Paper(<<"X">>, <<"c">>, <<<<"L">>>>, profile) : profile \in {f \in Profiles : ~f.abstract /\ f.citationCount < 0}}
    \cup {Paper(<<"y">>, <<"c">>, authors, profile) :
            authors \in {a \in AuthorLists : Len(a) < 2}, profile \in {f \in Profiles : f.citationCount = 7}}

\* papers without identifier, which differ in the spelling of title and first author
TitlePapers ==
    {Paper(<<>>, title, authors, profile) :
        title \in TitleSet, authors \in {a \in AuthorLists : Len(a) > 0},
        profile \in {f \in Profiles : ~f.abstract /\ f.citationCount < 0}}
    \cup {Paper(<<>>, <<"a", " ", "b">>, authors, profile) :
            authors \in {a \in AuthorLists : Len(a) < 2}, profile \in {f \in Profiles : f.abstract}}

PaperSet == DoiPapers \cup TitlePapers

\* the wrappers of three sources: the first half of the papers, a failed search, the other papers
Wrappers(ps) ==
    LET k == Len(ps) \div 2
    IN << [source |-> 1, hasResult |-> TRUE, papers |-> SubSeq(ps, 1, k)],
          [source |-> 2, hasResult |-> FALSE, papers |-> <<>>],
          [source |-> 3, hasResult |-> TRUE, papers |-> SubSeq(ps, k + 1, Len(ps))] >>

InitMerge ==
    /\ InitHealth
    /\ InitExec
    /\ InitRate([maxTokens |-> 10, refillRate |-> 1], 0)
    /\ retry = <<>>
    /\ opCalls = <<>>
    /\ \E n \in 0..MaxPapers : \E ps \in [1..n -> PaperSet] : mergeInput = Wrappers(ps)
    /\ merged = NotMerged

NextDedup == \E enableDeduplication \in BOOLEAN : MergeAndDeduplicate(enableDeduplication)

SpecDedup == InitMerge /\ [][NextDedup]_vars

(***************************************************************************)
(* SpecSearch: one search through the entry point (searchPapers,           *)
(* advancedSearch): driver selection, the executeParallelSearch run and    *)
(* the assembled response.  The registry holds drivers for the sources     *)
(* 1..NumRegistered; a driver stands for its source.                       *)
(***************************************************************************)
Registered == 1..NumRegistered

\* getDriver(source) !== undefined
IsRegistered(source) == source \in Registered

\* getAllDrivers(), getEnabledDrivers(): the values of the registry in insertion order
getEnabledDrivers == [k \in 1..NumRegistered |-> k]

\* sources.map(source => getDriver(source)).filter(d => d !== undefined)
DriversOf(sources) == SelectSeq(sources, IsRegistered)

\* selectSmartDrivers: both returns come before any use of the health records
selectSmartDrivers(requestedSources) ==
    IF Len(requestedSources) > 0 THEN DriversOf(requestedSources) ELSE getEnabledDrivers

\* SearchExecutor.selectDrivers before its test of drivers.length
selectDrivers(finalSources, enableSearchStrategy) ==
    IF enableSearchStrategy
    THEN selectSmartDrivers(finalSources)
    ELSE IF Len(finalSources) > 0 THEN DriversOf(finalSources) ELSE getEnabledDrivers

\* warnings that report the first failed wrapper only
DriverWarningsFirstOnly(rs) ==
    LET failed == SelectSeq(rs, LAMBDA r : r.error # "none")
    IN IF failed = <<>> THEN <<>>
       ELSE <<[source |-> failed[1].source, message |-> failed[1].error]>>

\* searchResults.filter(r => r.error).map(r => `${r.source}: ${r.error.message}`)
DriverWarnings(rs) ==
    LET failed == SelectSeq(rs, LAMBDA r : r.error # "none")
    IN [i \in 1..Len(failed) |-> [source |-> failed[i].source, message |-> failed[i].error]]

\* the results as mergeAndDeduplicateResults reads them, the papers left out
MergeWrappers(rs) ==
    [i \in 1..Len(rs) |-> [source |-> rs[i].source, hasResult |-> rs[i].result # "none", papers |-> <<>>]]

\* searchPapers / advancedSearch up to the await of executeParallelSearch
SearchPapers(sources, enableSearchStrategy, cfg) ==
    LET selected == selectDrivers(sources, enableSearchStrategy)
    IN /\ spc = "idle"
       /\ response.status = "none"
       /\ IF Len(selected) = 0
          THEN /\ response' = [status |-> "thrown", warnings |-> <<>>]
               /\ UNCHANGED <<healthVars, execVars, rateVars, dedupVars, strategyVars, abandoned, timer>>
          ELSE executeParallelSearch(selected, cfg)

\* the entry point after executeParallelSearch has returned: merge, warnings, return
AssembleSearchResult ==
    /\ spc = "done"
    /\ response.status = "none"
    /\ mergeInput' = MergeWrappers(results)
    /\ merged' = mergeAndDeduplicateResults(MergeWrappers(results), TRUE)
    /\ response' = [status |-> "returned", warnings |-> DriverWarnings(results)]
    /\ UNCHANGED <<healthVars, execVars, rateVars, abandoned, timer, strategyVars>>

\* AbandonedCallSettles with the late success written to the health record
AbandonedCallSettlesRecorded(k) ==
    /\ k \in DOMAIN abandoned
    /\ abandoned[k] > 0
    /\ abandoned' = [abandoned EXCEPT ![k] = abandoned[k] - 1]
    /\ metrics' = recordSuccess(metrics, tasks[k].source, 6000)
    /\ UNCHANGED <<now, healthCheckCache, retry, probe, opCalls>>
    /\ UNCHANGED <<execVars, rateVars, dedupVars, strategyVars, response, timer>>

\* a provider call that a timeout left running settles: withTimeout's promise
\* is settled already, so its resolve or reject does nothing
AbandonedCallSettles(k) ==
    /\ k \in DOMAIN abandoned
    /\ abandoned[k] > 0
    /\ abandoned' = [abandoned EXCEPT ![k] = abandoned[k] - 1]
    /\ UNCHANGED <<healthVars, execVars, rateVars, dedupVars, strategyVars, response, timer>>

\* the sources a caller pins: none, or up to two of the known platform sources
RequestSet ==
    UNION {{r \in [1..n -> Providers] : \A i, j \in 1..n : i # j => r[i] # r[j]} : n \in 0..2}

\* the configurations the entry points build: a strategy, the other fields default
SearchConfigSet == {[DefaultConfig EXCEPT !.strategy = st] : st \in Strategies}

RECURSIVE RecordFailures(_, _, _)
\* the health records after n consecutive failures of source
RecordFailures(m, source, n) ==
    IF n = 0 THEN m ELSE recordFailure(RecordFailures(m, source, n - 1), source)

RECURSIVE RecordStreaks(_, _)
RecordStreaks(streak, k) ==
    IF k = 0 THEN <<>> ELSE RecordFailures(RecordStreaks(streak, k - 1), k, streak[k])

InitSearch ==
    /\ now = 0
    /\ healthCheckCache = <<>>
    /\ probe = [q \in Probers |-> IdleProbe]
    /\ \E streak \in [Registered -> {0, MAX_CONSECUTIVE_FAILURES}] :
          metrics = RecordStreaks(streak, NumRegistered)
    /\ InitExec
    /\ InitRate([maxTokens |-> 10, refillRate |-> 1], 0)
    /\ InitDedup
    /\ retry = [c \in Registered |-> IdleRetry]
    /\ opCalls = [c \in Registered |-> 0]

NextSearch ==
    \/ \E sources \in RequestSet, enableSearchStrategy \in BOOLEAN, cfg \in SearchConfigSet :
          SearchPapers(sources, enableSearchStrategy, cfg)
    \/ \E k \in Registered, latency \in LatencySet : SearchResolves(k, latency)
    \/ \E k \in Registered, error \in SearchErrorSet : SearchRejects(k, error)
    \/ \E k \in Registered : BackoffElapsed(k)
    \/ \E k \in Registered : AbandonedCallSettles(k)
    \/ executeFullParallel
    \/ executeBatchParallel
    \/ executeSmartParallel
    \/ executeSequential
    \/ AssembleSearchResult

SpecSearch == InitSearch /\ [][NextSearch]_vars

(***************************************************************************)
(* SpecTasks: createSearchTasks and calculateOptimalConcurrency applied to  *)
(* the health records that short request histories leave.                  *)
(***************************************************************************)
\* what one recorded request was: a success with its latency, or a failure
Outcomes == {[ok |-> TRUE, latency |-> l] : l \in LatencySet} \cup {[ok |-> FALSE, latency |-> 0]}

Histories == UNION {[1..n -> Outcomes] : n \in 0..MaxHistory}

RECURSIVE RecordHistory(_, _, _)
\* the health records after the requests of history h were recorded for source
RecordHistory(m, source, h) ==
    IF h = <<>> THEN m
    ELSE LET before == RecordHistory(m, source, SubSeq(h, 1, Len(h) - 1))
             last == h[Len(h)]
         IN IF last.ok THEN recordSuccess(before, source, last.latency)
                       ELSE recordFailure(before, source)

RECURSIVE RecordHistories(_, _)
\* the health records after the histories hs[1..k] of sources 1..k
RecordHistories(hs, k) ==
    IF k = 0 THEN <<>> ELSE RecordHistory(RecordHistories(hs, k - 1), k, hs[k])

InitTasks ==
    /\ now = 0
    /\ healthCheckCache = <<>>
    /\ probe = [q \in Probers |-> IdleProbe]
    /\ InitOther
    /\ retry = <<>>
    /\ opCalls = <<>>
    /\ \E hs \in [Providers -> Histories], ds \in DriverLists :
          LET recorded == RecordHistories(hs, NumProviders)
          IN /\ drivers = ds
             /\ tasks = createSearchTasks(ds, recorded)
             /\ metrics = MetricsOfAll(recorded, ds)
    /\ config = DefaultConfig
    /\ spc = "idle"
    /\ results = <<>>
    /\ executing = <<>>
    /\ taskIndex = 0
    /\ settled = <<>>
    /\ wake = 0
    /\ concurrency = 0
    /\ response = NoResponse
    /\ abandoned = <<>>
    /\ timer = NoTimer
    /\ responseScore = NoScore
    /\ selection = NoSelection

\* const concurrency = SearchTaskManager.calculateOptimalConcurrency(tasks, maxConcurrency)
CalculateOptimalConcurrency(maxConcurrency) ==
    /\ concurrency = 0
    /\ config' = [config EXCEPT !.maxConcurrency = maxConcurrency]
    /\ concurrency' = calculateOptimalConcurrency(tasks, maxConcurrency)
    /\ UNCHANGED <<drivers, tasks, spc, results, executing, taskIndex, settled, wake>>
    /\ UNCHANGED <<healthVars, otherVars>>

NextTasks == \E maxConcurrency \in 1..MaxConcurrency : CalculateOptimalConcurrency(maxConcurrency)

SpecTasks == InitTasks /\ [][NextTasks]_vars

(***************************************************************************)
(* SpecSequential: one sequential run over all providers, entered after    *)
(* each provider has served at most one earlier request.                   *)
(***************************************************************************)
\* the drivers of all providers, in any order
FullDriverLists == {ds \in DriverLists : Len(ds) = NumProviders}

InitSequential ==
    /\ now = 0
    /\ healthCheckCache = <<>>
    /\ probe = [q \in Probers |-> IdleProbe]
    /\ \E hs \in [Providers -> {h \in Histories : Len(h) <= 1}] :
          metrics = RecordHistories(hs, NumProviders)
    /\ InitExec
    /\ InitOther
    /\ retry = [c \in Providers |-> IdleRetry]
    /\ opCalls = [c \in Providers |-> 0]

NextSequential ==
    \/ \E ds \in FullDriverLists :
          executeParallelSearch(ds, [DefaultConfig EXCEPT !.strategy = "sequential"])
    \/ \E k \in Providers, latency \in LatencySet : SearchResolves(k, latency)
    \/ \E k \in Providers, error \in SearchErrorSet : SearchRejects(k, error)
    \/ \E k \in Providers : BackoffElapsed(k)
    \/ executeSequential

SpecSequential == InitSequential /\ [][NextSequential]_vars

(***************************************************************************)
(* SpecInvocation: one executeSearchTask followed step by step, with the   *)
(* driver's rate limiter and the timer of withTimeout.  The task is task 1 *)
(* of its run; every attempt has an acquire() activation of its own.       *)
(***************************************************************************)
\* operation() up to its awaits: driver.search() calls executeWithRateLimit,
\* whose acquire() runs up to its first await; withTimeout then sets its timer
AttemptStarts ==
    LET r == refill(tokens, lastRefill, now, options)
        free == {a \in Acquirers : acq[a].pc = "idle"}
        a == CHOOSE x \in free : \A y \in free : x <= y
    IN /\ free # {}
       /\ tokens' = r.tokens
       /\ lastRefill' = r.lastRefill
       /\ acq' = [acq EXCEPT ![a].pc = "refilled"]
       /\ microtasks' = Append(microtasks, a)
       /\ timer' = [armed |-> TRUE, set |-> timer.set + 1, acquirer |-> a]
       /\ UNCHANGED options

\* the token has been taken and fn() has sent the request to the provider
RequestSent == retry[1].pc = "op" /\ acq[timer.acquirer].pc = "idle"

\* executeSearchTask up to the first await
ExecuteSearchTask ==
    /\ ~IsSettled(1)
    /\ RetryBegin(1, tasks[1].source)
    /\ AttemptStarts
    /\ UNCHANGED <<now, healthCheckCache, probe, execVars, dedupVars, strategyVars, response, abandoned>>

\* the provider answers: the timer is cleared, executeWithRetry returns, the wrapper is built
ProviderResolves(latency) ==
    /\ RequestSent
    /\ timer.armed
    /\ RetryOpResolves(1, latency)
    /\ timer' = [timer EXCEPT !.armed = FALSE]
    /\ settled' = [settled EXCEPT ![1] = ResultWrapper(tasks[1].source)]
    /\ UNCHANGED <<drivers, config, tasks, spc, results, executing, taskIndex, wake, concurrency>>
    /\ UNCHANGED <<now, healthCheckCache, probe, rateVars, dedupVars, strategyVars, response, abandoned>>

\* the provider fails: the timer is cleared and the catch block of executeWithRetry runs
ProviderRejects(error) ==
    /\ RequestSent
    /\ timer.armed
    /\ RetryOpRejects(1, error)
    /\ timer' = [timer EXCEPT !.armed = FALSE]
    /\ settled' = IF retry'[1].pc = "thrown"
                  THEN [settled EXCEPT ![1] = ErrorWrapper(tasks[1].source, error)]
                  ELSE settled
    /\ UNCHANGED <<drivers, config, tasks, spc, results, executing, taskIndex, wake, concurrency>>
    /\ UNCHANGED <<now, healthCheckCache, probe, rateVars, dedupVars, strategyVars, response, abandoned>>

\* the timer of withTimeout fires before search() has settled, wherever
\* search() is suspended: the attempt is rejected, search() goes on
TimeoutFires ==
    /\ retry[1].pc = "op"
    /\ timer.armed
    /\ RetryOpRejects(1, withTimeoutError(config.timeout))
    /\ timer' = [timer EXCEPT !.armed = FALSE]
    /\ abandoned' = [abandoned EXCEPT ![1] = abandoned[1] + 1]
    /\ settled' = IF retry'[1].pc = "thrown"
                  THEN [settled EXCEPT ![1] = ErrorWrapper(tasks[1].source, withTimeoutError(config.timeout))]
                  ELSE settled
    /\ UNCHANGED <<drivers, config, tasks, spc, results, executing, taskIndex, wake, concurrency>>
    /\ UNCHANGED <<now, healthCheckCache, probe, rateVars, dedupVars, strategyVars, response>>

\* the backoff sleep is over: the loop of executeWithRetry invokes operation() again
NextAttempt ==
    /\ RetrySleepDone(1)
    /\ AttemptStarts
    /\ UNCHANGED <<now, healthCheckCache, probe, execVars, dedupVars, strategyVars, response, abandoned>>

\* config.timeout: the 30000 ms of the search entry points, and 4290 ms, which the
\* trend analysis passes for a period timeout of 5290 ms
TimeoutSet == {30000, 4290}

InitInvocation ==
    /\ InitHealth
    /\ \E source \in Providers :
          /\ drivers = <<source>>
          /\ tasks = createSearchTasks(<<source>>, <<>>)
    /\ \E timeoutMs \in TimeoutSet : config = [DefaultConfig EXCEPT !.timeout = timeoutMs]
    /\ spc = "idle"
    /\ results = <<>>
    /\ executing = <<>>
    /\ taskIndex = 0
    /\ settled = <<NoWrapper>>
    /\ wake = 0
    /\ concurrency = 0
    /\ \E opt \in OptionSet : InitRate(opt, 0)
    /\ InitDedup
    /\ retry = <<IdleRetry>>
    /\ opCalls = <<0>>
    /\ response = NoResponse
    /\ abandoned = <<0>>
    /\ timer = NoTimer
    /\ responseScore = NoScore
    /\ selection = NoSelection

NextInvocation ==
    \/ ExecuteSearchTask
    \/ \E a \in Acquirers : AcquireCheck(a)
    \/ \E a \in Acquirers : AcquireWake(a)
    \/ \E a \in Acquirers : AcquireConsume(a)
    \/ \E d \in RateTickSteps : RateTick(d)
    \/ \E latency \in LatencySet : ProviderResolves(latency)
    \/ \E error \in ErrorSet : ProviderRejects(error)
    \/ TimeoutFires
    \/ NextAttempt

SpecInvocation == InitInvocation /\ [][NextInvocation]_vars

(***************************************************************************)
(* SearchStrategyManager.  A query is the set of the keys of               *)
(* TOPIC_KEYWORDS it holds; the reasons and the confidence of a selection  *)
(* are left out.  Scores are exact fractions.                              *)
(***************************************************************************)
\* Object.entries(PLATFORM_METADATA), the success rate in hundredths
PLATFORM_METADATA == <<
    [source |-> "arxiv", categories |-> {"computer_science", "physics_math"}, successRate |-> 95, responseTime |-> 2000],
    [source |-> "openalex", categories |-> {"general_academic", "multidisciplinary"}, successRate |-> 90, responseTime |-> 1500],
    [source |-> "pmc", categories |-> {"biomedical"}, successRate |-> 92, responseTime |-> 1800],
    [source |-> "europepmc", categories |-> {"biomedical"}, successRate |-> 88, responseTime |-> 2200],
    [source |-> "biorxiv", categories |-> {"biomedical"}, successRate |-> 85, responseTime |-> 2500],
    [source |-> "medrxiv", categories |-> {"biomedical"}, successRate |-> 83, responseTime |-> 2600],
    [source |-> "core", categories |-> {"general_academic", "multidisciplinary"}, successRate |-> 80, responseTime |-> 3000],
    [source |-> "semantic_scholar", categories |-> {"computer_science", "general_academic"}, successRate |-> 87, responseTime |-> 1700],
    [source |-> "crossref", categories |-> {"general_academic"}, successRate |-> 89, responseTime |-> 1900],
    [source |-> "pubmed", categories |-> {"biomedical"}, successRate |-> 91, responseTime |-> 1600],
    [source |-> "google_scholar", categories |-> {"general_academic", "multidisciplinary"}, successRate |-> 75, responseTime |-> 4000],
    [source |-> "iacr", categories |-> {"computer_science"}, successRate |-> 94, responseTime |-> 2100] >>

\* three of the keys of TOPIC_KEYWORDS, one of each category
TOPIC_KEYWORDS == [keyword \in {"cancer", "machine learning", "quantum"} |->
    IF keyword = "cancer" THEN "biomedical"
    ELSE IF keyword = "machine learning" THEN "computer_science" ELSE "physics_math"]

\* classifyTopic: the categories of the keywords the query holds, the
\* multidisciplinary category if it holds none
classifyTopic(query) ==
    [ categories |-> IF query = {} THEN {"multidisciplinary"} ELSE {TOPIC_KEYWORDS[keyword] : keyword \in query},
      keywords |-> query ]

calculateCategoryScore(platformCategories, topicCategories) ==
    IF topicCategories = {} THEN [n |-> 1, d |-> 2]
    ELSE Frac(Cardinality(platformCategories \cap topicCategories), Cardinality(topicCategories))

\* preferredTime 0 stands for an absent argument as well: both are falsy
calculateResponseScore(platformResponseTime, preferredTime) ==
    LET targetTime == IF preferredTime = 0 THEN 2000 ELSE preferredTime
    IN IF platformResponseTime <= targetTime THEN [n |-> 1, d |-> 1]
       ELSE IF platformResponseTime >= targetTime * 3 THEN [n |-> 1, d |-> 5]
       ELSE Frac(targetTime * 2 - (platformResponseTime - targetTime), targetTime * 2)

\* no coverage string of PLATFORM_METADATA holds a key of TOPIC_KEYWORDS: the
\* coverage strings are Chinese, the keys English
calculateCoverageScore(keywords) ==
    IF keywords = {} THEN [n |-> 1, d |-> 2] ELSE [n |-> 0, d |-> 1]

isOpenAccessPlatform(source) == source \in {"arxiv", "pmc", "biorxiv", "medrxiv", "core"}

\* the score calculatePlatformScores gives a platform it does not skip
PlatformScore(metadata, topicResult, cfg) ==
    LET weighted == FracAdd(FracAdd(FracMul(calculateCategoryScore(metadata.categories, topicResult.categories), [n |-> 4, d |-> 10]),
                                    FracMul([n |-> metadata.successRate, d |-> 100], [n |-> 3, d |-> 10])),
                            FracAdd(FracMul(calculateResponseScore(metadata.responseTime, cfg.preferredResponseTime), [n |-> 2, d |-> 10]),
                                    FracMul(calculateCoverageScore(topicResult.keywords), [n |-> 1, d |-> 10])))
    IN IF cfg.prioritizeOpenAccess /\ isOpenAccessPlatform(metadata.source)
       THEN FracAdd(weighted, [n |-> 1, d |-> 10]) ELSE weighted

\* minSuccessRate = config?.minSuccessRate || 0.7, in hundredths
MinSuccessRate(cfg) == IF cfg.minSuccessRate = 0 THEN 70 ELSE cfg.minSuccessRate

RECURSIVE calculatePlatformScoresFrom(_, _, _)
\* calculatePlatformScores over the entries from index i on
calculatePlatformScoresFrom(i, topicResult, cfg) ==
    IF i > Len(PLATFORM_METADATA) THEN <<>>
    ELSE LET metadata == PLATFORM_METADATA[i]
             rest == calculatePlatformScoresFrom(i + 1, topicResult, cfg)
         IN IF metadata.successRate < MinSuccessRate(cfg) THEN rest
            ELSE <<[source |-> metadata.source, score |-> PlatformScore(metadata, topicResult, cfg)]>> \o rest

calculatePlatformScores(topicResult, cfg) == calculatePlatformScoresFrom(1, topicResult, cfg)

\* scores with entry e put behind the entries that score at least as much
InsertByScore(scores, e) ==
    LET ahead == {i \in 1..Len(scores) : ~FracLess(scores[i].score, e.score)}
        k == IF ahead = {} THEN 0 ELSE CHOOSE i \in ahead : \A j \in ahead : j <= i
    IN SubSeq(scores, 1, k) \o <<e>> \o SubSeq(scores, k + 1, Len(scores))

RECURSIVE SortByScore(_)
\* scores.sort((a, b) => b.score - a.score): a stable sort
SortByScore(scores) ==
    IF scores = <<>> THEN <<>>
    ELSE InsertByScore(SortByScore(SubSeq(scores, 1, Len(scores) - 1)), scores[Len(scores)])

\* the fixed fallback platforms, none of them taken out
AllFallbackPlatforms(primaryPlatforms) == <<"openalex", "crossref", "core">>

selectFallbackPlatforms(primaryPlatforms) ==
    SelectSeq(<<"openalex", "crossref", "core">>,
              LAMBDA fb : \A i \in 1..Len(primaryPlatforms) : primaryPlatforms[i] # fb)

selectPlatforms(query, cfg) ==
    LET topicResult == classifyTopic(query)
        sorted == SortByScore(calculatePlatformScores(topicResult, cfg))
        sortedPlatforms == SubSeq(sorted, 1, Min(5, Len(sorted)))
        platforms == [i \in 1..Len(sortedPlatforms) |-> sortedPlatforms[i].source]
    IN [ platforms |-> platforms, fallbackPlatforms |-> selectFallbackPlatforms(platforms) ]

(***************************************************************************)
(* SpecScore: calculateResponseScore applied to the response time of a     *)
(* platform and a preferred response time.                                 *)
(***************************************************************************)
MaxPreferredSteps == 12

\* config.preferredResponseTime: absent (0), or 250 ms to 3000 ms; the default is 2000
PreferredTimes == {250 * k : k \in 0..MaxPreferredSteps}

ResponseTimes == {PLATFORM_METADATA[i].responseTime : i \in 1..Len(PLATFORM_METADATA)}

CalculateResponseScore(platformResponseTime, preferredTime) ==
    /\ responseScore' = [ called |-> TRUE, platformResponseTime |-> platformResponseTime,
                          preferredTime |-> preferredTime,
                          score |-> calculateResponseScore(platformResponseTime, preferredTime) ]
    /\ UNCHANGED <<healthVars, execVars, rateVars, dedupVars, callerVars, selection>>

InitStrategy ==
    /\ InitHealth
    /\ InitExec
    /\ InitOther
    /\ retry = <<>>
    /\ opCalls = <<>>

NextScore == \E t \in ResponseTimes, preferredTime \in PreferredTimes : CalculateResponseScore(t, preferredTime)

SpecScore == InitStrategy /\ [][NextScore]_vars

(***************************************************************************)
(* SpecSelect: one selectPlatforms call, for a query and a configuration.   *)
(***************************************************************************)
QuerySet == SUBSET DOMAIN TOPIC_KEYWORDS

\* config.searchStrategy: minSuccessRate absent (0) or given in hundredths
StrategyConfigSet ==
    [ prioritizeOpenAccess : BOOLEAN, preferredResponseTime : PreferredTimes, minSuccessRate : {0, 80, 90, 96} ]

SelectPlatforms(query, cfg) ==
    LET r == selectPlatforms(query, cfg)
    IN /\ ~selection.called
       /\ selection' = [ called |-> TRUE, query |-> query, config |-> cfg,
                         platforms |-> r.platforms, fallbackPlatforms |-> r.fallbackPlatforms ]
       /\ UNCHANGED <<healthVars, execVars, rateVars, dedupVars, callerVars, responseScore>>

NextSelect == \E query \in QuerySet, cfg \in StrategyConfigSet : SelectPlatforms(query, cfg)

SpecSelect == InitStrategy /\ [][NextSelect]_vars

(***************************************************************************)
(* Properties                                                              *)
(***************************************************************************)
WrappersOf(k) == {j \in 1..Len(results) : results[j].source = tasks[k].source}

\* C1: whatever the strategy, the outcomes and the completion order, the array
\* a finished run returns holds exactly one wrapper per scheduled task.
C1_OneWrapperPerTask ==
    spc = "done" =>
        /\ Len(results) = Len(tasks)
        /\ \A k \in 1..Len(tasks) : Cardinality(WrappersOf(k)) = 1

\* C2: under smart-parallel the tasks started and not yet settled never
\* outnumber the concurrency calculateOptimalConcurrency computed for the run.
C2_InFlightWithinConcurrency ==
    (spc # "idle" /\ config.strategy = "smart_parallel") =>
        Cardinality(InFlight) <= concurrency

\* C3: under any interleaving of overlapping acquire() calls the token count
\* stays within [0, maxTokens], so a token is there whenever one is consumed.
C3_TokensWithinBucket ==
    /\ tokens >= 0
    /\ tokens <= options.maxTokens * TokenUnit

\* the health record getMetrics(source) would hand out
Record(m, source) == getMetrics(m, source)[source]

\* C4: an operation that fails with a retryable error on its first maxRetries
\* attempts and succeeds on the next one makes executeWithRetry return, after
\* exactly maxRetries + 1 invocations; no activation ever invokes the operation
\* more than maxRetries + 1 times.
C4_AttemptsBounded ==
    /\ [](\A c \in DOMAIN retry :
            retry[c].pc # "idle" => opCalls[c] <= retry[c].strategy.maxRetries + 1)
    /\ [][\A c \in DOMAIN retry :
            ( /\ retry[c].pc = "op"
              /\ retry[c].attempt = retry[c].strategy.maxRetries
              /\ retry'[c] # retry[c]
              /\ Record(metrics', retry[c].source).successCount
                   = Record(metrics, retry[c].source).successCount + 1 )
            => ( /\ retry'[c].pc = "returned"
                 /\ opCalls'[c] = retry[c].strategy.maxRetries + 1 )]_vars

C4_Witness ==
    \E c \in DOMAIN retry :
        /\ retry[c].pc = "returned"
        /\ retry[c].attempt = retry[c].strategy.maxRetries
        /\ opCalls[c] = retry[c].strategy.maxRetries + 1

\* C5: a recorded success sets consecutiveFailures to 0 whatever the streak
\* was, and the isHealthy flag goes from true to false only in a step that
\* records a failure and leaves consecutiveFailures at 3 or more.
C5_FlagFallsAtThirdFailure ==
    [][\A s \in Providers :
        LET old == Record(metrics, s)
            new == Record(metrics', s)
        IN /\ new.successCount > old.successCount => new.consecutiveFailures = 0
           /\ (old.isHealthy /\ ~new.isHealthy) =>
                 /\ new.failureCount = old.failureCount + 1
                 /\ new.consecutiveFailures >= 3]_vars

C5_Witness ==
    \E s \in DOMAIN metrics :
        /\ ~metrics[s].isHealthy
        /\ metrics[s].consecutiveFailures = 3
        /\ metrics[s].successCount > 0

\* C6: a false isHealthy flag stays false in every step, time passing
\* included, except a step that records a success for that provider or
\* resets that provider's health.
C6_UnhealthyIsSticky ==
    [][\A s \in Providers :
        (~Record(metrics, s).isHealthy /\ Record(metrics', s).isHealthy) =>
            \/ \E latency \in LatencySet : metrics' = recordSuccess(metrics, s, latency)
            \/ metrics' = resetPlatformHealthOp(metrics, s)]_vars

C6_Witness ==
    \E s \in DOMAIN metrics :
        /\ ~metrics[s].isHealthy
        /\ now > 0
        /\ \E o \in DOMAIN metrics : o # s /\ metrics[o].successCount > 0

\* C7: in every health record successCount + failureCount = totalRequests
\* and, once a request has been recorded, successRate = successCount / totalRequests.
C7_CountersConsistent ==
    \A s \in DOMAIN metrics :
        LET r == metrics[s]
        IN /\ r.successCount + r.failureCount = r.totalRequests
           /\ r.totalRequests > 0 => r.successRate.n * r.totalRequests = r.successCount * r.successRate.d

C7_Witness ==
    \E s \in DOMAIN metrics :
        /\ metrics[s].successCount > 0
        /\ metrics[s].failureCount > 0
        /\ metrics[s].consecutiveFailures = 0
        /\ \E c \in DOMAIN retry : retry[c].pc = "op" /\ retry[c].source = s
        /\ \E q \in DOMAIN probe : probe[q].pc = "probing" /\ probe[q].source = s

\* C8: a finished full-parallel or batch-parallel run returns as many
\* wrappers as there are tasks, the wrapper at index i being that of task i.
C8_OrderPreserved ==
    (spc = "done" /\ config.strategy \in {"full_parallel", "batch_parallel"}) =>
        /\ Len(results) = Len(tasks)
        /\ \A i \in 1..Len(tasks) : results[i].source = tasks[i].source

C8_Witness ==
    /\ spc = "done"
    /\ config.strategy = "batch_parallel"
    /\ BatchSize(config) = 2
    /\ Len(tasks) = 3
    /\ results[1].error # "none"
    /\ results[3].result # "none"
    /\ tasks[1].source # 1

\* the positions of allPapers that are in the returned list
Survivors == {merged.papers[k] : k \in 1..Len(merged.papers)}

\* the input papers with a unique identifier equal to that of paper i after
\* lowercasing and trimming
SameIdentifier(i) ==
    {j \in 1..Len(merged.allPapers) :
        /\ merged.allPapers[j].doi # <<>>
        /\ trim(toLowerCase(merged.allPapers[j].doi)) = trim(toLowerCase(merged.allPapers[i].doi))}

\* twice the completeness score as stated: +10 identifier, +5 abstract,
\* +3 citation count, +2 full text, +1 per author, +0.5 per keyword
StatedScore(paper) ==
    (IF paper.doi # <<>> THEN 20 ELSE 0)
    + (IF paper.abstract THEN 10 ELSE 0)
    + (IF paper.citationCount >= 0 THEN 6 ELSE 0)
    + (IF paper.fullTextAvailable THEN 4 ELSE 0)
    + 2 * Len(paper.authors)
    + (IF paper.keywords > 0 THEN paper.keywords ELSE 0)

\* the same score with +3 for a citation count other than zero only
NonZeroCitationScore(paper) ==
    StatedScore(paper) - (IF paper.citationCount = 0 THEN 6 ELSE 0)

\* C9 as stated: of the input papers that share a unique identifier after
\* lowercasing and trimming exactly one is returned, the first of those
\* with the highest score, a citation count of zero scoring +3 as well.
C9_SurvivorHasHighestStatedScore ==
    (merged.done /\ merged.enableDeduplication) =>
        \A i \in 1..Len(merged.allPapers) :
            merged.allPapers[i].doi # <<>> =>
                LET group == SameIdentifier(i)
                    best == CHOOSE j \in group :
                        \A o \in group :
                            \/ StatedScore(merged.allPapers[o]) < StatedScore(merged.allPapers[j])
                            \/ StatedScore(merged.allPapers[o]) = StatedScore(merged.allPapers[j]) /\ j <= o
                IN /\ group \cap Survivors = {best}
                   /\ Cardinality({k \in 1..Len(merged.papers) : merged.papers[k] \in group}) = 1

\* C9: of the input papers that share a unique identifier after lowercasing
\* and trimming exactly one is returned, the first of those with the highest
\* score (+10 identifier, +5 abstract, +3 citation count other than zero,
\* +2 full text, +1 per author, +0.5 per keyword).
C9_SurvivorHasHighestScore ==
    (merged.done /\ merged.enableDeduplication) =>
        \A i \in 1..Len(merged.allPapers) :
            merged.allPapers[i].doi # <<>> =>
                LET group == SameIdentifier(i)
                    best == CHOOSE j \in group :
                        \A o \in group :
                            \/ NonZeroCitationScore(merged.allPapers[o]) < NonZeroCitationScore(merged.allPapers[j])
                            \/ NonZeroCitationScore(merged.allPapers[o]) = NonZeroCitationScore(merged.allPapers[j])
                                  /\ j <= o
                IN /\ group \cap Survivors = {best}
                   /\ Cardinality({k \in 1..Len(merged.papers) : merged.papers[k] \in group}) = 1

\* three papers of one identifier written in two ways, the second and the
\* third tied on the highest score: the second is returned
C9_Witness ==
    /\ merged.done
    /\ merged.enableDeduplication
    /\ Len(merged.allPapers) = 3
    /\ SameIdentifier(1) = {1, 2, 3}
    /\ merged.allPapers[1].doi # merged.allPapers[2].doi
    /\ NonZeroCitationScore(merged.allPapers[1]) < NonZeroCitationScore(merged.allPapers[2])
    /\ NonZeroCitationScore(merged.allPapers[2]) = NonZeroCitationScore(merged.allPapers[3])
    /\ merged.allPapers[2] # merged.allPapers[3]
    /\ merged.papers = <<2>>

\* the title normalized as stated: lowercased, punctuation stripped, whitespace collapsed
NormalizedTitle(title) == CollapseSpaces(StripPunctuation(toLowerCase(title)))

\* the first author's name, lowercased and trimmed; empty without authors
NormalizedFirstAuthor(paper) ==
    IF Len(paper.authors) > 0 THEN trim(toLowerCase(paper.authors[1])) ELSE <<>>

\* C10: of two input papers without a unique identifier whose normalized
\* titles are equal and whose normalized first-author names are equal, at
\* most one is returned.
C10_FallbackKeyCollapses ==
    (merged.done /\ merged.enableDeduplication) =>
        \A i, j \in 1..Len(merged.allPapers) :
            ( /\ i # j
              /\ merged.allPapers[i].doi = <<>>
              /\ merged.allPapers[j].doi = <<>>
              /\ NormalizedTitle(merged.allPapers[i].title) = NormalizedTitle(merged.allPapers[j].title)
              /\ NormalizedFirstAuthor(merged.allPapers[i]) = NormalizedFirstAuthor(merged.allPapers[j]) )
            => ~(i \in Survivors /\ j \in Survivors)

\* C11: for a non-empty task list and maxConcurrency >= 1 the concurrency
\* calculateOptimalConcurrency returns is at least 1 and at most
\* min(maxConcurrency, number of tasks).
C11_ConcurrencyClamped ==
    (concurrency # 0 /\ Len(tasks) > 0) =>
        /\ 1 <= concurrency
        /\ concurrency <= Min(config.maxConcurrency, Len(tasks))

\* task a succeeded on its first attempt, task b was rejected by the timeout on
\* every attempt it made, task c failed twice with a retryable error and then
\* succeeded, in a finished full-parallel run of three tasks on fresh records
ScenarioABC(a, b, c) ==
    /\ spc = "done"
    /\ config.strategy = "full_parallel"
    /\ Len(tasks) = 3
    /\ {a, b, c} = 1..3
    /\ opCalls[a] = 1 /\ retry[a].pc = "returned"
    /\ retry[b].pc = "thrown" /\ retry[b].error = TimeoutError
    /\ Record(metrics, tasks[b].source).successCount = 0
    /\ opCalls[c] = 3 /\ retry[c].pc = "returned" /\ retry[c].error = "ETIMEDOUT"
    /\ Record(metrics, tasks[c].source).failureCount = 2

\* C12: in the scenario the returned metrics count 2 successful and 1 failed
\* platform, and the wrapper of the provider that failed twice and then
\* succeeded carries a result and no error.
C12_ScenarioMetrics ==
    \A a, b, c \in 1..3 :
        ScenarioABC(a, b, c) =>
            /\ ReturnedMetrics.successfulPlatforms = 2
            /\ ReturnedMetrics.failedPlatforms = 1
            /\ \E i \in 1..Len(results) :
                  /\ results[i].source = tasks[c].source
                  /\ results[i].result # "none"
                  /\ results[i].error = "none"
            /\ \A i \in 1..Len(results) :
                  results[i].source = tasks[c].source => results[i].error = "none"

C12_Witness == \E a, b, c \in 1..3 : ScenarioABC(a, b, c) /\ opCalls[b] = 1


\* C13: the orchestrator throws when it is invoked with an empty candidate
\* provider list, before any task is scheduled: executeParallelSearch never
\* leaves its entry, and never returns results, with an empty driver list.
C13_EmptyListThrows == spc # "idle" => Len(drivers) > 0


\* the wrappers of rs that carry the error of source src
ErrorWrappersOf(rs, src, error) ==
    {i \in 1..Len(rs) : rs[i].source = src /\ rs[i].error = error /\ error # "none"}

\* the entries of the warnings list ws that report the error of source src
WarningsOf(ws, src, error) ==
    {j \in 1..Len(ws) : ws[j].source = src /\ ws[j].message = error}

C15_UnhealthyNeverSelected ==
    [][\A sources \in RequestSet, cfg \in SearchConfigSet :
          SearchPapers(sources, TRUE, cfg) =>
             \A i \in 1..Len(selectSmartDrivers(sources)) :
                isHealthy(metrics, selectSmartDrivers(sources)[i])]_vars


\* C16: when the operation fails with an error outside the retryable set, or
\* fails on the last allowed attempt, executeWithRetry records exactly one
\* failure for that attempt, rethrows that same error, and afterwards makes
\* no further attempt and performs no backoff sleep.
C16_GiveUpRethrows ==
    [][/\ \A c \in Callers, error \in ErrorSet :
            ( /\ OperationRejects(c, error)
              /\ \/ error \notin retry[c].strategy.retryableErrors
                 \/ retry[c].attempt = retry[c].strategy.maxRetries ) =>
               /\ Record(metrics', retry[c].source).failureCount
                     = Record(metrics, retry[c].source).failureCount + 1
               /\ Record(metrics', retry[c].source).totalRequests
                     = Record(metrics, retry[c].source).totalRequests + 1
               /\ retry'[c].pc = "thrown"
               /\ retry'[c].error = error
               /\ opCalls'[c] = opCalls[c]
       /\ \A c \in Callers :
            retry[c].pc = "thrown" =>
               \/ retry'[c] = retry[c] /\ opCalls'[c] = opCalls[c]
               \/ retry'[c].pc = "idle"]_vars

\* a non-retryable error on the second of several allowed attempts has been rethrown
C16_Witness ==
    \E c \in Callers :
       /\ retry[c].pc = "thrown"
       /\ retry[c].error = "401"
       /\ retry[c].attempt = 1
       /\ retry[c].attempt < retry[c].strategy.maxRetries
       /\ opCalls[c] = 2


\* C17: backoff is bounded: every backoff sleep of executeWithRetry lasts at
\* most the maxDelay of the RetryStrategy derived for the provider.
C17_SleepWithinMaxDelay ==
    \A c \in DOMAIN retry :
       retry[c].pc = "sleep" => retry[c].delay <= retry[c].strategy.maxDelay


\* a cached checkHealth result of source that is less than 60 s old
CachedWithin60s(source) ==
    source \in DOMAIN healthCheckCache /\ now - healthCheckCache[source].timestamp < 60000

\* C18: checkHealth has a 60-second result cache: a call made less than 60 s
\* after the timestamp of the provider's cached result does not invoke the
\* probe and changes neither the health records nor anything else; a call
\* made with no cached result or one of 60 s or more invokes the probe; and
\* resetPlatformHealth and clearCache leave no cached result for the provider.
C18_CacheWindow ==
    /\ [](\A q \in Probers, s \in HealthSources :
            probe[q].pc = "idle" =>
               IF CachedWithin60s(s)
               THEN /\ ENABLED (CheckHealth(q, s) /\ UNCHANGED vars)
                    /\ ~ENABLED (CheckHealth(q, s) /\ probe'[q].pc = "probing")
               ELSE /\ ENABLED (CheckHealth(q, s) /\ probe'[q] = [pc |-> "probing", source |-> s])
                    /\ ~ENABLED (CheckHealth(q, s) /\ probe'[q].pc = "idle"))
    /\ [][/\ \A s \in HealthSources : ResetPlatformHealth(s) => s \notin DOMAIN healthCheckCache'
          /\ ClearCache => healthCheckCache' = <<>>]_vars

\* a probe is under way for a provider whose cached result is 60 s old, while
\* another provider's result, 30 s old, is still served from the cache
C18_Witness ==
    \E q \in Probers, s, u \in HealthSources :
       /\ probe[q] = [pc |-> "probing", source |-> s]
       /\ s \in DOMAIN healthCheckCache
       /\ now - healthCheckCache[s].timestamp = 60000
       /\ u \in DOMAIN healthCheckCache
       /\ now - healthCheckCache[u].timestamp = 30000


\* C19: a task timeout only ends the caller's wait: when the timeout fires
\* before the provider call settles, the attempt is rejected with the timeout
\* error while the provider call is left running, and the later completion of
\* that call changes neither the task's wrapper nor any health record.
C19_TimeoutOnlyEndsWait ==
    [][\A k \in Registered :
          /\ SearchRejects(k, TimeoutError) =>
                /\ abandoned'[k] = abandoned[k] + 1
                /\ retry'[k].error = TimeoutError
                /\ Record(metrics', tasks[k].source).failureCount
                      = Record(metrics, tasks[k].source).failureCount + 1
          /\ (k \in DOMAIN abandoned /\ k \in DOMAIN abandoned' /\ abandoned'[k] < abandoned[k]) =>
                /\ settled' = settled
                /\ results' = results
                /\ metrics' = metrics
                /\ retry' = retry
                /\ response' = response]_vars

\* a timed-out task has its error wrapper, and the provider call the timeout
\* left running has completed since
C19_Witness ==
    \E k \in 1..Len(tasks) :
       /\ settled[k] = [source |-> tasks[k].source, result |-> "none", error |-> TimeoutError]
       /\ abandoned[k] = 0


\* the size of the groups: batchSize, 3 when none is configured
GroupSize == IF config.batchSize = 0 THEN 3 ELSE config.batchSize

\* the group of task k when the tasks are cut in order into groups of GroupSize
GroupOf(k) == (k - 1) \div GroupSize

\* executeSearchTask has been called for task k
Started(k) == retry[k].pc # "idle"

\* C20: under batch-parallel the tasks are partitioned in order into
\* consecutive groups of batchSize (default 3, the last possibly smaller);
\* the tasks of a group are started together, and no task of a later group is
\* started before every task of the groups before it has settled.
C20_GroupsRunInTurn ==
    (spc # "idle" /\ config.strategy = "batch_parallel") =>
       \A k, j \in 1..Len(tasks) :
          /\ GroupOf(j) = GroupOf(k) => (Started(j) <=> Started(k))
          /\ (GroupOf(j) < GroupOf(k) /\ Started(k)) => IsSettled(j)

\* the second group of a run in groups of 2 is in flight after both tasks of
\* the first group have settled
C20_Witness ==
    /\ spc = "awaitBatch"
    /\ config.strategy = "batch_parallel"
    /\ config.batchSize = 2
    /\ Len(tasks) = 3
    /\ retry[3].pc = "op"
    /\ IsSettled(1) /\ IsSettled(2)
    /\ settled[1].error # "none"


\* successRate * 100 - averageLatency / 10 of a health record, as a fraction
StatedPriority(r) ==
    [ n |-> r.successRate.n * 1000 * r.averageLatency.d - r.averageLatency.n * r.successRate.d,
      d |-> 10 * r.successRate.d * r.averageLatency.d ]

\* C21: under sequential at most one task is in flight at any moment; the
\* tasks are started one after the other in the order of the task list, which
\* is by descending priority, the priority being successRate * 100 -
\* averageLatency / 10 of the provider's health record when the run is
\* entered; and a failing task does not keep the following tasks from
\* running: the finished run has started every task and holds a wrapper for each.
C21_SequentialByPriority ==
    /\ []((spc # "idle" /\ config.strategy = "sequential") =>
            /\ Cardinality(InFlight) <= 1
            /\ \A k \in 1..Len(tasks) :
                  retry[k].pc # "idle" => \A j \in 1..(k - 1) : IsSettled(j)
            /\ spc = "done" =>
                  /\ \A k \in 1..Len(tasks) : retry[k].pc # "idle" /\ IsSettled(k)
                  /\ Len(results) = Len(tasks))
    /\ [][(spc = "idle" /\ spc' # "idle" /\ config'.strategy = "sequential") =>
            \A i, j \in 1..Len(tasks') :
               i < j => ~FracLess(StatedPriority(Record(metrics, tasks'[i].source)),
                                  StatedPriority(Record(metrics, tasks'[j].source)))]_vars

\* a finished sequential run whose task order differs from the order of the
\* drivers, whose first task failed and whose last task succeeded
C21_Witness ==
    /\ spc = "done"
    /\ config.strategy = "sequential"
    /\ Len(tasks) = 3
    /\ tasks[1].source # drivers[1]
    /\ FracLess(tasks[2].priority, tasks[1].priority)
    /\ FracLess(tasks[3].priority, tasks[2].priority)
    /\ results[1].error # "none"
    /\ results[3].result # "none"


\* C22: in a task invocation the rate-limiter token is acquired first, then
\* the provider call runs inside executeWithRetry, and a single timeout races
\* the retry-wrapped call as a whole: no acquisition is under way once
\* executeWithRetry has been entered, the invocation sets at most one timer,
\* and no timer is pending while the token is waited for.
C22_TokenThenRetryThenOneTimeout ==
    /\ retry[1].pc \in {"op", "sleep"} => \A a \in Acquirers : acq[a].pc = "idle"
    /\ timer.set <= 1
    /\ timer.armed => \A a \in Acquirers : acq[a].pc = "idle"


\* C23: a timeout is a retryable error: an attempt that fails because the
\* timeout fired is retried after a backoff sleep as long as the retry budget
\* is not exhausted, for every configured timeout value.
C23_TimeoutIsRetried ==
    [][(TimeoutFires /\ retry[1].attempt < retry[1].strategy.maxRetries) =>
          retry'[1].pc = "sleep"]_vars


\* C24: when a strategy function returns, every task it started has settled:
\* no executeSearchTask of the run is still pending, so no retry loop of the
\* run updates a health record after the results have been returned.
C24_SettledOnReturn ==
    /\ [](spc = "done" => \A k \in 1..Len(tasks) : Started(k) => IsSettled(k))
    /\ [][spc = "done" /\ spc' = "done" => metrics' = metrics]_vars


\* the policy stated for a health record r, the initial delay of a provider
\* with consecutive failures being perFailure ms for each of them
StatedStrategy(r, perFailure) ==
    LET good == ~FracLess(r.successRate, [n |-> 7, d |-> 10])
    IN [ maxRetries |-> IF good THEN 3 ELSE 2,
         maxDelay |-> IF good THEN 10000 ELSE 5000,
         backoffMultiplier |-> 2,
         initialDelay |-> IF r.consecutiveFailures = 0 THEN 1000
                           ELSE perFailure * r.consecutiveFailures ]

\* the fields of a strategy the policy is stated for
PolicyOf(strategy) ==
    [ maxRetries |-> strategy.maxRetries, maxDelay |-> strategy.maxDelay,
      backoffMultiplier |-> strategy.backoffMultiplier, initialDelay |-> strategy.initialDelay ]

\* executeWithRetry is entered by caller c
Enters(c) == retry[c].pc = "idle" /\ retry'[c].pc # "idle"

\* C25 (as stated): getRetryStrategy gives maxRetries 3, maxDelay 10000 and
\* backoffMultiplier 2 for a successRate of at least 0.7, maxRetries 2 and
\* maxDelay 5000 below it; initialDelay is 1000 without consecutive failures
\* and 1000 times consecutiveFailures otherwise.
C25_StatedRetryStrategy ==
    [][\A c \in Callers : Enters(c) =>
          PolicyOf(retry'[c].strategy) = StatedStrategy(Record(metrics, retry'[c].source), 1000)]_vars

\* C25 (amended): the same, with initialDelay 2000 times consecutiveFailures
\* for a provider with consecutive failures.
C25_RetryStrategy ==
    [][\A c \in Callers : Enters(c) =>
          PolicyOf(retry'[c].strategy) = StatedStrategy(Record(metrics, retry'[c].source), 2000)]_vars

\* a retry loop entered for a degraded provider after two consecutive failures
C25_Witness ==
    \E c \in Callers :
        /\ retry[c].pc = "op" /\ retry[c].attempt = 0
        /\ retry[c].strategy.initialDelay = 4000
        /\ retry[c].strategy.maxRetries = 2
        /\ Record(metrics, retry[c].source).consecutiveFailures = 2


\* the score stated for response time t and target latency T: 1.0 up to T,
\* 0.2 from 3T on, on the line from 1.0 at T to 0.2 at 3T in between
StatedResponseScore(t, T) ==
    IF t <= T THEN [n |-> 1, d |-> 1]
    ELSE IF t >= 3 * T THEN [n |-> 1, d |-> 5]
    ELSE Frac(10 * T - 4 * (t - T), 10 * T)

\* the target latency of a call: the preferred time, 2000 ms if there is none
TargetTime(preferredTime) == IF preferredTime = 0 THEN 2000 ELSE preferredTime

\* C26: for every response time t and target latency T > 0 the response-time
\* score is 1.0 for t <= T, falls linearly from 1.0 at T to 0.2 at 3T and is
\* 0.2 for t >= 3T; it is never below 0.2 and does not increase with t.
C26_ResponseScoreFloor ==
    responseScore.called =>
        LET t == responseScore.platformResponseTime
            T == TargetTime(responseScore.preferredTime)
        IN /\ responseScore.score = StatedResponseScore(t, T)
           /\ ~FracLess(responseScore.score, [n |-> 1, d |-> 5])
           /\ \A later \in ResponseTimes :
                 later >= t => ~FracLess(responseScore.score,
                                         calculateResponseScore(later, responseScore.preferredTime))


\* C27: isHealthy(provider) is true exactly when the flag of the record is set
\* and its success rate is strictly greater than 0.5; a provider that was
\* never referenced is reported healthy.
C27_IsHealthy ==
    \A s \in HealthSources :
        IF s \in DOMAIN metrics
        THEN isHealthy(metrics, s) <=>
                (metrics[s].isHealthy /\ 2 * metrics[s].successRate.n > metrics[s].successRate.d)
        ELSE isHealthy(metrics, s)

\* one provider has its flag set and a success rate of exactly one half, and
\* is not healthy, while the other provider was never referenced
C27_Witness ==
    \E s, other \in HealthSources :
        /\ s \in DOMAIN metrics /\ other \notin DOMAIN metrics
        /\ metrics[s].isHealthy /\ metrics[s].successCount = 1 /\ metrics[s].failureCount = 1
        /\ ~isHealthy(metrics, s)


\* the platforms of a sequence
Range(seq) == {seq[i] : i \in 1..Len(seq)}

\* the platforms that meet the minimum success rate of the configuration
\* (0.7 if it gives none), each with the score of the code
Eligible(query, cfg) ==
    LET minimum == IF cfg.minSuccessRate = 0 THEN 70 ELSE cfg.minSuccessRate
    IN { [source |-> PLATFORM_METADATA[i].source,
          score |-> PlatformScore(PLATFORM_METADATA[i], classifyTopic(query), cfg)] :
         i \in {j \in 1..Len(PLATFORM_METADATA) : PLATFORM_METADATA[j].successRate >= minimum} }

\* C28: selectPlatforms returns at most 5 platforms, the highest-scored of
\* those meeting the minimum success rate; fallbackPlatforms is the fixed
\* set OpenAlex, CrossRef, CORE without the selected platforms, so the two
\* lists are disjoint.
C28_TopFiveAndFallback ==
    selection.called =>
        LET eligible == Eligible(selection.query, selection.config)
            chosen == Range(selection.platforms)
        IN /\ Len(selection.platforms) = Min(5, Cardinality(eligible))
           /\ Cardinality(chosen) = Len(selection.platforms)
           /\ chosen \subseteq {e.source : e \in eligible}
           /\ \A e, f \in eligible :
                 (e.source \in chosen /\ f.source \notin chosen) => ~FracLess(e.score, f.score)
           /\ \A i, j \in 1..Len(selection.platforms) :
                 i < j => \A e, f \in eligible :
                    (e.source = selection.platforms[i] /\ f.source = selection.platforms[j])
                       => ~FracLess(e.score, f.score)
           /\ Range(selection.fallbackPlatforms) = {"openalex", "crossref", "core"} \ chosen
           /\ Cardinality(Range(selection.fallbackPlatforms)) = Len(selection.fallbackPlatforms)
           /\ Range(selection.fallbackPlatforms) \cap chosen = {}

\* five platforms were selected out of more that were eligible, one of the
\* fixed fallback platforms among them
C28_Witness ==
    /\ selection.called
    /\ Len(selection.platforms) = 5
    /\ Cardinality(Eligible(selection.query, selection.config)) > 5
    /\ "openalex" \in Range(selection.platforms)
    /\ Len(selection.fallbackPlatforms) = 2


\* C29: resetPlatformHealth(provider) changes only the consecutiveFailures
\* (to 0) and the isHealthy flag (to true) of that provider and removes its
\* health-check cache entry; its successCount, failureCount, totalRequests,
\* successRate and averageLatency, and the record and the cache entry of
\* every other provider, stay as they are.
C29_ResetFrame ==
    [][\A s \in HealthSources : ResetPlatformHealth(s) =>
          /\ Record(metrics', s) = [Record(metrics, s) EXCEPT !.consecutiveFailures = 0, !.isHealthy = TRUE]
          /\ s \notin DOMAIN healthCheckCache'
          /\ \A o \in HealthSources \ {s} :
                /\ (o \in DOMAIN metrics') = (o \in DOMAIN metrics)
                /\ o \in DOMAIN metrics => metrics'[o] = metrics[o]
                /\ (o \in DOMAIN healthCheckCache') = (o \in DOMAIN healthCheckCache)
                /\ o \in DOMAIN healthCheckCache => healthCheckCache'[o] = healthCheckCache[o]
          /\ UNCHANGED <<now, retry, probe, opCalls>>]_vars

\* a provider that failed three times and never succeeded is healthy again
\* with no consecutive failures, which only a reset brings about, while the
\* other provider keeps its failure
C29_Witness ==
    \E s, o \in HealthSources :
        /\ s # o /\ s \in DOMAIN metrics /\ o \in DOMAIN metrics
        /\ metrics[s].successCount = 0 /\ metrics[s].failureCount = 3
        /\ metrics[s].consecutiveFailures = 0 /\ metrics[s].isHealthy
        /\ metrics[o].failureCount = 1 /\ metrics[o].consecutiveFailures = 1


\* C30: for every run of executeParallelSearch, under every strategy, the
\* returned metrics have successfulPlatforms + failedPlatforms =
\* platformCount = the number of providers passed in, and duplicatePapers =
\* totalPapers - uniquePapers >= 0.
C30_PlatformCountsAddUp ==
    spc = "done" =>
        /\ ReturnedMetrics.platformCount = Len(drivers)
        /\ ReturnedMetrics.successfulPlatforms + ReturnedMetrics.failedPlatforms
              = ReturnedMetrics.platformCount
        /\ ReturnedMetrics.duplicatePapers = ReturnedMetrics.totalPapers - ReturnedMetrics.uniquePapers
        /\ ReturnedMetrics.duplicatePapers >= 0

\* a finished smart-parallel run over three providers that returns the
\* wrapper of one provider twice, with a failed platform and a duplicate paper
C30_Witness ==
    /\ spc = "done" /\ config.strategy = "smart_parallel" /\ Len(drivers) = 3
    /\ \E i, j \in 1..Len(results) : i < j /\ results[i].source = results[j].source
    /\ ReturnedMetrics.failedPlatforms >= 1
    /\ ReturnedMetrics.duplicatePapers >= 1

====
